---- MODULE Spec2Model ----
(***************************************************************************)
(* Receive side of the reliable-ordered datagram transport:                *)
(*   - compute_full_seqnum and ReliableReceivedPacketBuffer                *)
(*     (src/network/reliable.cpp, reliable.h)                              *)
(*   - IncomingSplitPacket / IncomingSplitBuffer (src/network/split.cpp)   *)
(*     driven by the TimeoutQueue (src/util/timeout_queue.h)               *)
(*                                                                         *)
(*   - BinHeap (src/util/binheap.h), ReceivedPacket::parse and AsyncLoop   *)
(*                                                                         *)
(* The specifications share the variables:                                 *)
(*   SpecSeq      applies compute_full_seqnum to enumerated inputs         *)
(*   Spec         the reorder buffer of one channel under insert() calls   *)
(*   SpecSplit    the split buffer under insert(), clock ticks and         *)
(*                processTimeouts()                                        *)
(*   SpecReenter  SpecSplit with a completion callback that calls insert() *)
(*   SpecHeap     BinHeap next to the reference heap of testFuzz           *)
(*   SpecClear    SpecHeap with clear() and the cleanup of testFuzz        *)
(*   SpecTimeout  TimeoutQueue and TimeoutHandle with logging callbacks    *)
(*   SpecCallback TimeoutQueue with callbacks that arm timeouts            *)
(*   SpecParse    ReceivedPacket::parse on enumerated datagrams            *)
(*   SpecLoop     AsyncLoop with callbacks that use the loop               *)
(* A specification leaves the variables of the other parts at their idle   *)
(* values.                                                                 *)
(*                                                                         *)
(* u16 arithmetic is computed modulo 2^16.  u64 values are plain integers: *)
(* every value the model reaches stays below 2^31, far from the u64 wrap,  *)
(* but for the delay U64_MAX, which is written as its residue.             *)
(***************************************************************************)
EXTENDS Integers, Sequences, FiniteSets, TLC

VARIABLES
    \* ---- compute_full_seqnum applied to one input (SpecSeq)
    fn_pc,                  \* "idle" | "ready" | "done"
    fn_base,                \* u64 base
    fn_seqnum,              \* u16 wire seqnum
    fn_full,                \* result of compute_full_seqnum, -1 before the call
    \* ---- ReliableReceivedPacketBuffer (Spec)
    next_incoming_seqnum,   \* u64, reliable.h:65
    m_queue,                \* pending packets, a priority queue on full_seqnum
    rel_n,                  \* number of insert() calls made so far
    rel_start,              \* next_incoming_seqnum when the observed run began
    rel_arrivals,           \* per insert() call: the arriving packet's stream position
                            \* and wire seqnum, and next_incoming_seqnum at the call
    rel_log,                \* what insert()/flush() did, in program order
    \* ---- IncomingSplitBuffer and TimeoutQueue (SpecSplit)
    now,                    \* porting::getTimeMs()
    m_buf,                  \* split seqnum -> IncomingSplitPacket
    m_heap,                 \* TimeoutQueue::m_heap: the armed timeout records
    sp_next_id,             \* allocation counter of IncomingSplitPacket objects
    sp_n,                   \* number of IncomingSplitBuffer::insert() calls
    sp_ticks,               \* number of clock advances
    sp_received,            \* buffers handed to m_data_received, in order
    sp_evicted,             \* groups removed by handleTimeout, in order
    sp_aborted,             \* a sanity_check failed: the process aborted
    \* ---- BinHeap against DummyBinHeap (SpecHeap)
    real,                   \* the BinHeap and the nodes it links
    dummy,                  \* DummyBinHeap::values, sorted by value
    iter,                   \* iterations of the testFuzz loop made so far
    bh_last,                \* the operation of the last iteration
    \* ---- TimeoutQueue and TimeoutHandle over the BinHeap (SpecTimeout)
    tq_heap,                \* TimeoutQueue::m_heap and the handles' nodes
    tq_alive,               \* the TimeoutHandle objects not yet destroyed
    tq_cbs,                 \* every callback given to setTimeout, in order
    tq_fired,               \* the callbacks processTimeouts() invoked, in order
    \* ---- ReceivedPacket::parse on one datagram (SpecParse)
    pk_data,                \* ReceivedPacket::data[0 .. data_size - 1]
    pk,                     \* the packet and its BinReader as parse() left them
    \* ---- AsyncLoop (SpecLoop)
    al,                     \* the AsyncLoop object, the position of loop() in it
    al_cbs,                 \* every callback given to add_callback or atexit
    al_ran                  \* the callbacks invoked, in order

relVars   == <<next_incoming_seqnum, m_queue, rel_n, rel_start, rel_arrivals, rel_log>>
fnVars    == <<fn_pc, fn_base, fn_seqnum, fn_full>>
splitVars == <<now, m_buf, m_heap, sp_next_id, sp_n, sp_ticks, sp_received, sp_evicted,
               sp_aborted>>
heapVars  == <<real, dummy, iter, bh_last>>
tqVars    == <<tq_heap, tq_alive, tq_cbs, tq_fired>>
pkVars    == <<pk_data, pk>>
alVars    == <<al, al_cbs, al_ran>>
vars      == <<fnVars, relVars, splitVars, heapVars, tqVars, pkVars, alVars>>

----------------------------------------------------------------------------
(* Program constants *)

MAX_RELIABLE_WINDOW_SIZE == 32768
SEQNUM_INITIAL == 65500
SEQNUM_MAX == 65535
SPLIT_TIMEOUT_MS == 30

U16 == SEQNUM_MAX + 1       \* number of u16 values

----------------------------------------------------------------------------
(* Bounds *)

MaxInserts == 4             \* insert() calls per run of the reorder buffer
MaxAhead == 2               \* stream packets start .. start+MaxAhead arrive
BaseSpan == 2               \* bases within BaseSpan of each anchor (SpecSeq)
KSpan == 2                  \* wire offsets within KSpan of each anchor (SpecSeq)
KStride == 64               \* plus wire offsets at every multiple of KStride
MaxSplitInserts == 3        \* IncomingSplitBuffer::insert() calls per run
MaxTicks == 2               \* clock advances per run
MaxHeapNodes == 6           \* BinHeap nodes alive at a time
MaxValue == 2               \* node values are 1..MaxValue
MaxIter == 8                \* iterations of the testFuzz loop (M, split.cpp:332)
MaxHandles == 2             \* TimeoutHandle objects on the queue
MaxArms == 2                \* setTimeout() calls per run
MaxDelay == 1               \* delayMs is 0..MaxDelay, or close to 2^64
MaxClock == 2               \* the clock is advanced up to MaxClock
MaxCallbacks == 6           \* callbacks given to add_callback and atexit per run
MaxActs == 2                \* calls a callback makes on the AsyncLoop
MaxTail == 7                \* datagram bytes after the packet type byte

----------------------------------------------------------------------------
(* Idle values of the three parts *)

EmptyMap == [k \in {} |-> 0]

FnIdle ==
    /\ fn_pc = "idle"
    /\ fn_base = 0
    /\ fn_seqnum = 0
    /\ fn_full = -1

RelIdle ==
    /\ next_incoming_seqnum = SEQNUM_INITIAL
    /\ m_queue = {}
    /\ rel_n = 0
    /\ rel_start = SEQNUM_INITIAL
    /\ rel_arrivals = <<>>
    /\ rel_log = <<>>

SplitIdle ==
    /\ now = 0
    /\ m_buf = EmptyMap
    /\ m_heap = {}
    /\ sp_next_id = 0
    /\ sp_n = 0
    /\ sp_ticks = 0
    /\ sp_received = <<>>
    /\ sp_evicted = <<>>
    /\ sp_aborted = FALSE

\* A null pointer; the BinHeap nodes are numbered from 1.
NULL == 0

HeapNodes == 1..MaxHeapNodes

\* BinHeapNode::BinHeapNode, binheap.h:61-67
NewNode(v) ==
    [value |-> v, in_heap |-> FALSE, parent |-> NULL, left |-> NULL, right |-> NULL]

\* BinHeap::BinHeap, binheap.h:97-101, with comparator cmp, beside the nodes
\* that exist; failed is set when an assert or sanity_check of the heap fails.
EmptyBinHeap(cmp, nodes) ==
    [is_less_than |-> cmp, m_size |-> 0, m_root |-> NULL,
     node |-> [n \in nodes |-> NewNode(0)], failed |-> FALSE]

HeapIdle ==
    /\ real = EmptyBinHeap("less", {})
    /\ dummy = <<>>
    /\ iter = 0
    /\ bh_last = [op |-> "none"]

TqIdle ==
    /\ tq_heap = EmptyBinHeap("TimeoutRecord", {})
    /\ tq_alive = {}
    /\ tq_cbs = <<>>
    /\ tq_fired = <<>>

\* No datagram was received.
PkIdle ==
    /\ pk_data = <<>>
    /\ pk = [parsed |-> FALSE]

\* AsyncLoop as constructed, split.cpp:450-454, before loop() is called; batch
\* counts the swaps loop() has made.
AlIdle ==
    /\ al = [pc |-> "main", m_running |-> TRUE, exit_status |-> 0,
             m_atexits |-> <<>>, m_pending |-> <<>>, m_active |-> <<>>, batch |-> 0]
    /\ al_cbs = <<>>
    /\ al_ran = <<>>

----------------------------------------------------------------------------
(* compute_full_seqnum, reliable.cpp:5-13 *)

\* Faulty variant: the tie forward_diff = 32768 goes backward.
compute_full_seqnum_TieBackward(base, seqnum) ==
    LET base_mod == base % U16
        forward_diff == (seqnum - base_mod) % U16
        backward_diff == (base_mod - seqnum) % U16
    IN  IF forward_diff < 32768 \/ backward_diff > base
        THEN base + forward_diff
        ELSE base - backward_diff

\* Faulty variant: forward_diff = 32769 still goes forward.
compute_full_seqnum_WiderForward(base, seqnum) ==
    LET base_mod == base % U16
        forward_diff == (seqnum - base_mod) % U16
        backward_diff == (base_mod - seqnum) % U16
    IN  IF forward_diff <= 32769 \/ backward_diff > base
        THEN base + forward_diff
        ELSE base - backward_diff

compute_full_seqnum(base, seqnum) ==
    LET base_mod == base % U16                        \* u16 base_mod = base & 0xFFFF
        forward_diff == (seqnum - base_mod) % U16     \* u16 arithmetic wraps
        backward_diff == (base_mod - seqnum) % U16
    IN  IF forward_diff <= 32768 \/ backward_diff > base
        THEN base + forward_diff
        ELSE base - backward_diff

(* SpecSeq: the function applied to one enumerated input *)

BaseAnchors == {0, 32768, SEQNUM_INITIAL, U16, 2 * U16 + 32768, 1073741824}

Bases == {b \in {a + d : a \in BaseAnchors, d \in (0 - BaseSpan)..BaseSpan} : b >= 0}

KAnchors == {0, 32768, U16 - 1}

WireOffsets ==
    {k \in {a + d : a \in KAnchors, d \in (0 - KSpan)..KSpan} : k >= 0 /\ k < U16}
        \cup {k \in 0..(U16 - 1) : k % KStride = 0}

InitSeq ==
    /\ fn_pc = "ready"
    /\ fn_base \in Bases
    /\ fn_seqnum \in {(fn_base + k) % U16 : k \in WireOffsets}
    /\ fn_full = -1
    /\ RelIdle
    /\ SplitIdle
    /\ HeapIdle
    /\ TqIdle
    /\ PkIdle
    /\ AlIdle

Extrapolate ==
    /\ fn_pc = "ready"
    /\ fn_full' = compute_full_seqnum(fn_base, fn_seqnum)
    /\ fn_pc' = "done"
    /\ UNCHANGED <<fn_base, fn_seqnum, relVars, splitVars, heapVars, tqVars, pkVars, alVars>>

NextSeq == Extrapolate

SpecSeq == InitSeq /\ [][NextSeq]_vars

----------------------------------------------------------------------------
(* ReliableReceivedPacketBuffer, reliable.cpp:30-82.                        *)
(*                                                                         *)
(* A packet is [id, seqnum, full_seqnum]: id is the number of the insert() *)
(* call that brought it.  m_queue is the set of pending packets; top() is  *)
(* a packet of least full_seqnum, and which of several packets with equal  *)
(* full_seqnum std::priority_queue yields first is left open.              *)
(*                                                                         *)
(* rel_log records the calls insert() makes, as events                     *)
(*   [op, call, id, full, ret]                                             *)
(* op: "toofar" (discarded, reliable.cpp:36-41), "ack" (sendAck),          *)
(*     "process" (processPacket, ret = its return value), "push"           *)
(*     (m_queue.push), "pop" (m_queue.pop), "discard" (duplicate dropped   *)
(*     by flush), "delete" (packet deleted by the destructor, call 0),     *)
(*     "destroyed" (the buffer is gone); call: the insert() call; id,      *)
(*     full: the packet.                                                   *)
(***************************************************************************)

Event(op, call, rpkt, ret) ==
    [op |-> op, call |-> call, id |-> rpkt.id, full |-> rpkt.full_seqnum, ret |-> ret]

\* The processPacket callback: it returns false (connection closed) on its
\* stopAt-th call of this insert() invocation, true otherwise (stopAt = 0:
\* never).  calls is the number of processPacket calls made before this one.
processPacket(calls, stopAt) == (calls + 1) # stopAt

\* OrderByFullSeqNum: the packets top() may return.
QueueTops(queue) ==
    {p \in queue : \A q \in queue : p.full_seqnum <= q.full_seqnum}

\* Faulty variant: flush() ignores the return value of processPacket.
RECURSIVE flush_KeepGoing(_, _, _)
flush_KeepGoing(st, call, stopAt) ==
    IF st.queue = {} \/ (\A p \in st.queue : p.full_seqnum > st.next)
    THEN {st}
    ELSE UNION {
        LET popped == [st EXCEPT !.queue = @ \ {rpkt},
                                 !.log = Append(@, Event("pop", call, rpkt, TRUE))]
        IN  IF rpkt.full_seqnum < popped.next
            THEN flush_KeepGoing([popped EXCEPT !.log = Append(@, Event("discard", call, rpkt, TRUE))],
                       call, stopAt)
            ELSE LET ret == processPacket(popped.calls, stopAt)
                     processed == [popped EXCEPT
                         !.next = @ + 1,
                         !.calls = @ + 1,
                         !.log = Append(@, Event("process", call, rpkt, ret))]
                 IN  flush_KeepGoing(processed, call, stopAt)
        : rpkt \in QueueTops(st.queue) }

\* Faulty variant: flush() processes queued duplicates instead of discarding them.
RECURSIVE flush_NoDuplicateCheck(_, _, _)
flush_NoDuplicateCheck(st, call, stopAt) ==
    IF st.queue = {} \/ (\A p \in st.queue : p.full_seqnum > st.next)
    THEN {st}
    ELSE UNION {
        LET popped == [st EXCEPT !.queue = @ \ {rpkt},
                                 !.log = Append(@, Event("pop", call, rpkt, TRUE))]
            ret == processPacket(popped.calls, stopAt)
            processed == [popped EXCEPT
                !.next = IF rpkt.full_seqnum < @ THEN @ ELSE @ + 1,
                !.calls = @ + 1,
                !.log = Append(@, Event("process", call, rpkt, ret))]
        IN  IF ~ret THEN {processed}
            ELSE flush_NoDuplicateCheck(processed, call, stopAt)
        : rpkt \in QueueTops(st.queue) }

\* Faulty variant: flush() stops at a queued packet below next instead of
\* discarding it.
RECURSIVE flush_ExactOnly(_, _, _)
flush_ExactOnly(st, call, stopAt) ==
    IF st.queue = {} \/ (\A p \in QueueTops(st.queue) : p.full_seqnum # st.next)
    THEN {st}
    ELSE UNION {
        LET popped == [st EXCEPT !.queue = @ \ {rpkt},
                                 !.log = Append(@, Event("pop", call, rpkt, TRUE))]
            ret == processPacket(popped.calls, stopAt)
            processed == [popped EXCEPT
                !.next = @ + 1,
                !.calls = @ + 1,
                !.log = Append(@, Event("process", call, rpkt, ret))]
        IN  IF ~ret THEN {processed}
            ELSE flush_ExactOnly(processed, call, stopAt)
        : rpkt \in QueueTops(st.queue) }

\* flush(), reliable.cpp:65-82.  st = [next, queue, log, calls]; the result is
\* the set of states flush() can end in.
RECURSIVE flush(_, _, _)
flush(st, call, stopAt) ==
    IF st.queue = {} \/ (\A p \in st.queue : p.full_seqnum > st.next)
    THEN {st}
    ELSE UNION {
        LET popped == [st EXCEPT !.queue = @ \ {rpkt},
                                 !.log = Append(@, Event("pop", call, rpkt, TRUE))]
        IN  IF rpkt.full_seqnum < popped.next
            THEN \* Discarding duplicate packet; continue
                 flush([popped EXCEPT !.log = Append(@, Event("discard", call, rpkt, TRUE))],
                       call, stopAt)
            ELSE LET ret == processPacket(popped.calls, stopAt)
                     processed == [popped EXCEPT
                         !.next = @ + 1,
                         !.calls = @ + 1,
                         !.log = Append(@, Event("process", call, rpkt, ret))]
                 IN  IF ~ret
                     THEN {processed}       \* Connection closed
                     ELSE flush(processed, call, stopAt)
        : rpkt \in QueueTops(st.queue) }

\* Faulty variant: insert() without the old-packet return; an old packet is
\* processed again.
ReliableReceivedPacketBuffer_insert_Redeliver(st, call, seqnum, stopAt) ==
    LET full_seqnum == compute_full_seqnum(st.next, seqnum)
        rpkt == [id |-> call, seqnum |-> seqnum, full_seqnum |-> full_seqnum]
    IN  IF full_seqnum > st.next + MAX_RELIABLE_WINDOW_SIZE
        THEN {[st EXCEPT !.log = Append(@, Event("toofar", call, rpkt, TRUE))]}
        ELSE LET acked == [st EXCEPT !.log = Append(@, Event("ack", call, rpkt, TRUE))]
             IN  IF st.next >= full_seqnum
                 THEN LET ret == processPacket(acked.calls, stopAt)
                          processed == [acked EXCEPT
                              !.next = IF full_seqnum < @ THEN @ ELSE @ + 1,
                              !.calls = @ + 1,
                              !.log = Append(@, Event("process", call, rpkt, ret))]
                      IN  IF ~ret
                          THEN {processed}
                          ELSE flush(processed, call, stopAt)
                 ELSE {[acked EXCEPT
                          !.queue = @ \cup {rpkt},
                          !.log = Append(@, Event("push", call, rpkt, TRUE))]}

\* Faulty variant: insert() acknowledges only after the old-packet test.
ReliableReceivedPacketBuffer_insert_AckNewOnly(st, call, seqnum, stopAt) ==
    LET full_seqnum == compute_full_seqnum(st.next, seqnum)
        rpkt == [id |-> call, seqnum |-> seqnum, full_seqnum |-> full_seqnum]
    IN  IF full_seqnum > st.next + MAX_RELIABLE_WINDOW_SIZE
        THEN {[st EXCEPT !.log = Append(@, Event("toofar", call, rpkt, TRUE))]}
        ELSE IF full_seqnum < st.next
        THEN {st}
        ELSE LET acked == [st EXCEPT !.log = Append(@, Event("ack", call, rpkt, TRUE))]
             IN  IF st.next = full_seqnum
                 THEN LET ret == processPacket(acked.calls, stopAt)
                          processed == [acked EXCEPT
                              !.next = @ + 1,
                              !.calls = @ + 1,
                              !.log = Append(@, Event("process", call, rpkt, ret))]
                      IN  IF ~ret
                          THEN {processed}
                          ELSE flush(processed, call, stopAt)
                 ELSE {[acked EXCEPT
                          !.queue = @ \cup {rpkt},
                          !.log = Append(@, Event("push", call, rpkt, TRUE))]}

\* Faulty variant: insert() discards a packet exactly MAX_WINDOW ahead.
ReliableReceivedPacketBuffer_insert_HalfOpenWindow(st, call, seqnum, stopAt) ==
    LET full_seqnum == compute_full_seqnum(st.next, seqnum)
        rpkt == [id |-> call, seqnum |-> seqnum, full_seqnum |-> full_seqnum]
    IN  IF full_seqnum >= st.next + MAX_RELIABLE_WINDOW_SIZE
        THEN {[st EXCEPT !.log = Append(@, Event("toofar", call, rpkt, TRUE))]}
        ELSE LET acked == [st EXCEPT !.log = Append(@, Event("ack", call, rpkt, TRUE))]
             IN  IF full_seqnum < st.next
                 THEN {acked}
                 ELSE IF st.next = full_seqnum
                 THEN LET ret == processPacket(acked.calls, stopAt)
                          processed == [acked EXCEPT
                              !.next = @ + 1,
                              !.calls = @ + 1,
                              !.log = Append(@, Event("process", call, rpkt, ret))]
                      IN  IF ~ret
                          THEN {processed}
                          ELSE flush(processed, call, stopAt)
                 ELSE {[acked EXCEPT
                          !.queue = @ \cup {rpkt},
                          !.log = Append(@, Event("push", call, rpkt, TRUE))]}

\* Variant: insert() does not queue a packet whose full_seqnum is already
\* queued.
ReliableReceivedPacketBuffer_insert_SkipQueued(st, call, seqnum, stopAt) ==
    LET full_seqnum == compute_full_seqnum(st.next, seqnum)
        rpkt == [id |-> call, seqnum |-> seqnum, full_seqnum |-> full_seqnum]
    IN  IF full_seqnum > st.next + MAX_RELIABLE_WINDOW_SIZE
        THEN {[st EXCEPT !.log = Append(@, Event("toofar", call, rpkt, TRUE))]}
        ELSE LET acked == [st EXCEPT !.log = Append(@, Event("ack", call, rpkt, TRUE))]
             IN  IF full_seqnum < acked.next
                 THEN {acked}
                 ELSE IF acked.next = full_seqnum
                 THEN LET ret == processPacket(acked.calls, stopAt)
                          processed == [acked EXCEPT
                              !.next = @ + 1,
                              !.calls = @ + 1,
                              !.log = Append(@, Event("process", call, rpkt, ret))]
                      IN  IF ~ret
                          THEN {processed}
                          ELSE flush(processed, call, stopAt)
                 ELSE IF \E p \in acked.queue : p.full_seqnum = full_seqnum
                 THEN {acked}
                 ELSE {[acked EXCEPT
                          !.queue = @ \cup {rpkt},
                          !.log = Append(@, Event("push", call, rpkt, TRUE))]}

\* Faulty variant: on the immediate path insert() acknowledges after the
\* delivery.
ReliableReceivedPacketBuffer_insert_AckLast(st, call, seqnum, stopAt) ==
    LET full_seqnum == compute_full_seqnum(st.next, seqnum)
        rpkt == [id |-> call, seqnum |-> seqnum, full_seqnum |-> full_seqnum]
    IN  IF full_seqnum > st.next + MAX_RELIABLE_WINDOW_SIZE
        THEN {[st EXCEPT !.log = Append(@, Event("toofar", call, rpkt, TRUE))]}
        ELSE IF full_seqnum < st.next
        THEN {[st EXCEPT !.log = Append(@, Event("ack", call, rpkt, TRUE))]}
        ELSE IF st.next = full_seqnum
        THEN LET ret == processPacket(st.calls, stopAt)
                 processed == [st EXCEPT
                     !.next = @ + 1,
                     !.calls = @ + 1,
                     !.log = Append(Append(@, Event("process", call, rpkt, ret)),
                                    Event("ack", call, rpkt, TRUE))]
             IN  IF ~ret
                 THEN {processed}
                 ELSE flush(processed, call, stopAt)
        ELSE {[st EXCEPT
                 !.queue = @ \cup {rpkt},
                 !.log = Append(Append(@, Event("ack", call, rpkt, TRUE)),
                                Event("push", call, rpkt, TRUE))]}

\* insert(), reliable.cpp:30-63, for the packet of wire seqnum `seqnum`
\* arriving as insert() call number `call`.
ReliableReceivedPacketBuffer_insert(st, call, seqnum, stopAt) ==
    LET full_seqnum == compute_full_seqnum(st.next, seqnum)
        rpkt == [id |-> call, seqnum |-> seqnum, full_seqnum |-> full_seqnum]
    IN  IF full_seqnum > st.next + MAX_RELIABLE_WINDOW_SIZE
        THEN {[st EXCEPT !.log = Append(@, Event("toofar", call, rpkt, TRUE))]}
        ELSE LET acked == [st EXCEPT !.log = Append(@, Event("ack", call, rpkt, TRUE))]
             IN  IF full_seqnum < st.next
                 THEN {acked}               \* Old packet
                 ELSE IF st.next = full_seqnum
                 THEN LET ret == processPacket(acked.calls, stopAt)
                          processed == [acked EXCEPT
                              !.next = @ + 1,
                              !.calls = @ + 1,
                              !.log = Append(@, Event("process", call, rpkt, ret))]
                      IN  IF ~ret
                          THEN {processed}  \* Connection closed
                          ELSE flush(processed, call, stopAt)
                 ELSE {[acked EXCEPT
                          !.queue = @ \cup {rpkt},
                          !.log = Append(@, Event("push", call, rpkt, TRUE))]}

\* ~ReliableReceivedPacketBuffer, reliable.cpp:19-27: while the queue is not
\* empty its top is deleted and popped.
RECURSIVE ReliableReceivedPacketBuffer_destructor(_)
ReliableReceivedPacketBuffer_destructor(st) ==
    IF st.queue = {}
    THEN {st}
    ELSE UNION {
        ReliableReceivedPacketBuffer_destructor(
            [st EXCEPT !.queue = @ \ {rpkt},
                       !.log = Append(@, Event("delete", 0, rpkt, TRUE))])
        : rpkt \in QueueTops(st.queue) }

(* Spec: one channel's buffer.  The observed run starts with an empty      *)
(* queue at a position the buffer reaches by in-order deliveries from      *)
(* SEQNUM_INITIAL: the initial position, just before the first wrap of the *)
(* wire seqnum, and a position whose low 16 bits are just below 32768.     *)

StartOffsets == {0, 34, 32802}

\* Stream positions of the arriving packets, relative to rel_start: the
\* packet before the start, the next MaxAhead + 1 packets of the stream, and
\* packets half the wire space and more ahead.
ArrivalOffsets == (-1..MaxAhead) \cup {MAX_RELIABLE_WINDOW_SIZE, MAX_RELIABLE_WINDOW_SIZE + 1}

Init ==
    /\ next_incoming_seqnum \in {SEQNUM_INITIAL + k : k \in StartOffsets}
    /\ rel_start = next_incoming_seqnum
    /\ m_queue = {}
    /\ rel_n = 0
    /\ rel_arrivals = <<>>
    /\ rel_log = <<>>
    /\ FnIdle
    /\ SplitIdle
    /\ HeapIdle
    /\ TqIdle
    /\ PkIdle
    /\ AlIdle

Insert ==
    /\ \A i \in 1..Len(rel_log) : rel_log[i].op # "destroyed"
    /\ rel_n < MaxInserts
    /\ \E d \in ArrivalOffsets, stopAt \in 0..(Cardinality(m_queue) + 1) :
         LET pos == rel_start + d
             seqnum == pos % U16
             st == [next |-> next_incoming_seqnum, queue |-> m_queue,
                    log |-> rel_log, calls |-> 0]
         IN  \E out \in ReliableReceivedPacketBuffer_insert(st, rel_n + 1, seqnum, stopAt) :
                 /\ next_incoming_seqnum' = out.next
                 /\ m_queue' = out.queue
                 /\ rel_log' = out.log
                 /\ rel_arrivals' = Append(rel_arrivals,
                        [pos |-> pos, seqnum |-> seqnum, next |-> next_incoming_seqnum])
                 /\ rel_n' = rel_n + 1
    /\ UNCHANGED <<rel_start, fnVars, splitVars, heapVars, tqVars, pkVars, alVars>>

\* The buffer is destroyed with its channel, between two insert() calls or
\* after the last; nothing is called on it afterwards.
Destroy ==
    /\ \A i \in 1..Len(rel_log) : rel_log[i].op # "destroyed"
    /\ LET st == [next |-> next_incoming_seqnum, queue |-> m_queue,
                  log |-> rel_log, calls |-> 0]
       IN  \E out \in ReliableReceivedPacketBuffer_destructor(st) :
               /\ m_queue' = out.queue
               /\ rel_log' = Append(out.log,
                      [op |-> "destroyed", call |-> 0, id |-> 0, full |-> 0, ret |-> TRUE])
    /\ UNCHANGED <<next_incoming_seqnum, rel_n, rel_start, rel_arrivals,
                   fnVars, splitVars, heapVars, tqVars, pkVars, alVars>>

Next == Insert \/ Destroy

Spec == Init /\ [][Next]_vars

----------------------------------------------------------------------------
(* What the log of a run shows *)

LogIdx == 1..Len(rel_log)
ProcessIdx == {i \in LogIdx : rel_log[i].op = "process"}
EverStopped == \E i \in ProcessIdx : ~rel_log[i].ret

\* Events of kind op that insert() call `call` logged for packet id.
EventsOf(op, call, id) ==
    {i \in LogIdx : rel_log[i].op = op /\ rel_log[i].call = call /\ rel_log[i].id = id}

\* The full_seqnum insert() call c computed for its packet.
ArrivalFull(c) == compute_full_seqnum(rel_arrivals[c].next, rel_arrivals[c].seqnum)

\* The full_seqnums passed to processPacket, in order of the calls.
RECURSIVE DeliveriesUpTo(_)
DeliveriesUpTo(n) ==
    IF n = 0 THEN <<>>
    ELSE IF rel_log[n].op = "process"
         THEN Append(DeliveriesUpTo(n - 1), rel_log[n].full)
         ELSE DeliveriesUpTo(n - 1)

Deliveries == DeliveriesUpTo(Len(rel_log))

----------------------------------------------------------------------------
(* Claims on the reorder buffer *)

\* C1: the full_seqnum values passed to processPacket are strictly ascending
\* over the whole run: every delivery has a full_seqnum greater than that of
\* every earlier delivery.
C1_StrictlyAscending ==
    \A i, j \in ProcessIdx : i < j => rel_log[i].full < rel_log[j].full

\* A run where packets arrived out of order and across the wrap of the wire
\* seqnum, and three deliveries were made.
C1_Witness ==
    /\ Len(Deliveries) >= 3
    /\ \E i \in LogIdx : rel_log[i].op = "pop"
    /\ \E i \in ProcessIdx : rel_arrivals[rel_log[i].id].seqnum < rel_start % U16

\* C2: no full_seqnum is passed to processPacket more than once, whatever
\* repeated wire seqnums arrive before or after the original was delivered and
\* whatever duplicates wait in the queue together.
C2_NoDuplicateDelivery ==
    \A i, j \in ProcessIdx : rel_log[i].full = rel_log[j].full => i = j

\* A duplicate was dropped from the queue by flush() and a repeated wire seqnum
\* arrived after its original had been delivered.
C2_Witness ==
    /\ \E i \in LogIdx : rel_log[i].op = "discard"
    /\ \E c \in 1..rel_n :
         /\ ArrivalFull(c) < rel_arrivals[c].next
         /\ \E i \in ProcessIdx : rel_log[i].full = ArrivalFull(c) /\ rel_log[i].call < c

\* Stream offsets (position - rel_start) of the packets that arrived.
ArrivedOffsets == {rel_arrivals[c].pos - rel_start : c \in 1..rel_n}

\* The packet of stream position pos has been delivered, or waits in the queue
\* under that position, or waited there until the buffer was destroyed.
Accounted(pos) ==
    \/ \E i \in ProcessIdx : rel_log[i].full = pos
    \/ \E p \in m_queue : p.full_seqnum = pos
    \/ \E i \in LogIdx : rel_log[i].op = "delete" /\ rel_log[i].full = pos

\* What C3 concludes of a run in which only stream packets arrived: the
\* deliveries are start, start+1, ... in order, each once; every packet that
\* arrived is delivered or still waits under its stream position; and once
\* offsets 0..N-1 have all arrived, the deliveries are exactly those N.
InOrderExactlyOnce ==
    /\ Deliveries = [i \in 1..Len(Deliveries) |-> rel_start + i - 1]
    /\ \A c \in 1..rel_n : Accounted(rel_arrivals[c].pos)
    /\ LET N == Cardinality(ArrivedOffsets)
       IN  ArrivedOffsets = 0..(N - 1) => Len(Deliveries) = N

\* C3 as claimed (any N): when the packets start, start+1, ..., start+N-1 arrive
\* in any order, duplicates allowed, and processPacket always continues, the
\* deliveries are exactly those packets in order and every packet that arrived
\* is delivered.
C3_AnyN ==
    (~EverStopped /\ \A d \in ArrivedOffsets : d >= 0) => InOrderExactlyOnce

\* C3 amended: the same for N <= MAX_WINDOW + 1, that is for stream packets
\* start .. start+MAX_WINDOW.
C3_WithinWindow ==
    (~EverStopped /\ \A d \in ArrivedOffsets : d >= 0 /\ d <= MAX_RELIABLE_WINDOW_SIZE)
        => InOrderExactlyOnce

\* Three packets arrived in the order start+2, start+1, start with a duplicate,
\* and were delivered as start, start+1, start+2.
C3_Witness ==
    /\ ~EverStopped
    /\ rel_n = 4
    /\ ArrivedOffsets = 0..2
    /\ rel_arrivals[1].pos = rel_start + 2
    /\ rel_arrivals[rel_n].pos = rel_start
    /\ Deliveries = <<rel_start, rel_start + 1, rel_start + 2>>

\* C4: every insert() whose computed full_seqnum is <= next_incoming_seqnum +
\* MAX_WINDOW calls sendAck exactly once for that arrival, be the packet new, a
\* duplicate of a queued packet or a duplicate of a delivered packet.
C4_AckPerArrival ==
    \A c \in 1..rel_n :
        ArrivalFull(c) <= rel_arrivals[c].next + MAX_RELIABLE_WINDOW_SIZE
            => /\ Cardinality(EventsOf("ack", c, c)) = 1
               /\ \A i \in LogIdx : rel_log[i].op = "ack" /\ rel_log[i].call = c
                                      => rel_log[i].id = c

\* A duplicate of a delivered packet and a duplicate of a queued packet were
\* both acknowledged.
C4_Witness ==
    /\ \E c \in 1..rel_n : /\ ArrivalFull(c) < rel_arrivals[c].next
                           /\ EventsOf("ack", c, c) # {}
    /\ \E c, e \in 1..rel_n : /\ c < e
                              /\ EventsOf("push", c, c) # {}
                              /\ EventsOf("push", e, e) # {}
                              /\ ArrivalFull(c) = ArrivalFull(e)
                              /\ EventsOf("ack", e, e) # {}

\* C5: once processPacket returns stop (false) in an insert() invocation, that
\* invocation makes no further processPacket call and pops no further packet:
\* the stopping call is the last thing the invocation does.
C5_StopIsFinal ==
    \A i \in ProcessIdx :
        ~rel_log[i].ret => \A j \in LogIdx : j > i => rel_log[j].call # rel_log[i].call

\* processPacket returned stop inside the drain loop while a deliverable packet
\* (a duplicate of the one just processed) was still queued.
C5_Witness ==
    /\ rel_log # <<>>
    /\ LET last == rel_log[Len(rel_log)]
       IN  /\ last.op = "process"
           /\ ~last.ret
           /\ last.id # last.call
           /\ \E p \in m_queue : p.full_seqnum <= next_incoming_seqnum

\* C6 as claimed: the window is half-open; a packet whose full_seqnum is at or
\* beyond next_incoming_seqnum + MAX_WINDOW is discarded without sendAck and
\* without being enqueued or delivered.
C6_HalfOpenWindow ==
    \A c \in 1..rel_n :
        ArrivalFull(c) >= rel_arrivals[c].next + MAX_RELIABLE_WINDOW_SIZE
            => /\ EventsOf("ack", c, c) = {}
               /\ EventsOf("push", c, c) = {}
               /\ \A i \in ProcessIdx : rel_log[i].id # c

\* C6 amended: the window is the closed range [next, next + MAX_WINDOW].  A
\* packet whose full_seqnum is in that range is acknowledged and then delivered
\* or enqueued, next + MAX_WINDOW included; only a packet strictly beyond
\* next + MAX_WINDOW is discarded without sendAck, unqueued and undelivered.
C6_ClosedWindow ==
    \A c \in 1..rel_n :
        LET full == ArrivalFull(c)
            next == rel_arrivals[c].next
        IN  /\ full > next + MAX_RELIABLE_WINDOW_SIZE
                => /\ EventsOf("ack", c, c) = {}
                   /\ EventsOf("push", c, c) = {}
                   /\ \A i \in ProcessIdx : rel_log[i].id # c
            /\ (full >= next /\ full <= next + MAX_RELIABLE_WINDOW_SIZE)
                => /\ EventsOf("ack", c, c) # {}
                   /\ EventsOf("push", c, c) # {} \/ EventsOf("process", c, c) # {}

\* A packet exactly MAX_WINDOW ahead was acknowledged and enqueued.
C6_Witness ==
    \E c \in 1..rel_n :
        /\ ArrivalFull(c) = rel_arrivals[c].next + MAX_RELIABLE_WINDOW_SIZE
        /\ EventsOf("ack", c, c) # {}
        /\ \E p \in m_queue : p.id = c

\* Wire seqnums around the tie and around the position base, and a spread of
\* wire seqnums over the whole 16-bit range.
SampleWire(base) ==
    {(base + k) % U16 : k \in {a + d : a \in KAnchors, d \in (0 - KSpan)..KSpan}}
        \cup {k * 8 * KStride : k \in 0..(SEQNUM_MAX \div (8 * KStride))}

\* C7 as claimed, read at each position the buffer reaches from SEQNUM_INITIAL:
\* some 16-bit wire seqnum makes insert() compute a full_seqnum beyond
\* next_incoming_seqnum + MAX_WINDOW and take the too-far branch.
C7_CanTrigger ==
    \E seqnum \in 0..SEQNUM_MAX :
        compute_full_seqnum(next_incoming_seqnum, seqnum)
            > next_incoming_seqnum + MAX_RELIABLE_WINDOW_SIZE

\* C7 amended: from SEQNUM_INITIAL the too-far branch never triggers.  No
\* insert() call discards its packet as too far in the future, and at every
\* position reached the wire seqnums (those around the tie and a spread over
\* the 16-bit range) map to at most next_incoming_seqnum + MAX_WINDOW; a
\* seqnum forged further ahead is taken for an old packet and acknowledged.
C7_NeverTooFar ==
    /\ \A i \in LogIdx : rel_log[i].op # "toofar"
    /\ \A seqnum \in SampleWire(next_incoming_seqnum) :
         compute_full_seqnum(next_incoming_seqnum, seqnum)
            <= next_incoming_seqnum + MAX_RELIABLE_WINDOW_SIZE

\* A packet forged MAX_WINDOW + 1 ahead of the position arrived, was taken for
\* an old packet and acknowledged.
C7_Witness ==
    \E c \in 1..rel_n :
        /\ rel_arrivals[c].pos = rel_arrivals[c].next + MAX_RELIABLE_WINDOW_SIZE + 1
        /\ ArrivalFull(c) < rel_arrivals[c].next
        /\ EventsOf("ack", c, c) # {}

----------------------------------------------------------------------------
(* Claims on compute_full_seqnum *)

\* C8: forward extrapolation.  For k in [0, 32768],
\* compute_full_seqnum(base, (base + k) mod 2^16) = base + k; in particular the
\* wire seqnum of base itself maps to base.
C8_Forward ==
    fn_pc = "done" =>
        LET k == (fn_seqnum - fn_base) % U16
        IN  k <= 32768 => fn_full = fn_base + k

\* The tie k = 32768 was computed for a base that could also go backward.
C8_Witness ==
    /\ fn_pc = "done"
    /\ fn_base >= 32768
    /\ (fn_seqnum - fn_base) % U16 = 32768
    /\ fn_full = fn_base + 32768

\* C9 as claimed: backward extrapolation.  For k in [1, 32768] with base >= k,
\* compute_full_seqnum(base, (base - k) mod 2^16) = base - k.
C9_Backward ==
    fn_pc = "done" =>
        LET k == (fn_base - fn_seqnum) % U16
        IN  (k >= 1 /\ k <= 32768 /\ fn_base >= k) => fn_full = fn_base - k

\* C9 amended: the same for k in [1, 32767]; at k = 32768 the forward and the
\* backward distance tie and the result is base + 32768.
C9_BackwardBelowTie ==
    fn_pc = "done" =>
        LET k == (fn_base - fn_seqnum) % U16
        IN  /\ (k >= 1 /\ k <= 32767 /\ fn_base >= k) => fn_full = fn_base - k
            /\ k = 32768 => fn_full = fn_base + 32768

\* The largest backward distance, k = 32767, was computed.
C9_Witness ==
    /\ fn_pc = "done"
    /\ (fn_base - fn_seqnum) % U16 = 32767
    /\ fn_base >= 32767
    /\ fn_full = fn_base - 32767

----------------------------------------------------------------------------
(* TimeoutQueue and TimeoutHandle, timeout_queue.h.                        *)
(*                                                                         *)
(* m_heap is the set of records resident in the queue's heap, each         *)
(* [owner, expiration]: owner is the IncomingSplitPacket whose handle      *)
(* holds the node, and the record's callback is handleTimeout(owner).      *)
(* top() is a record of least expiration; which of several records with    *)
(* equal expiration is on top is left open.                                *)
(***************************************************************************)

\* TimeoutHandle::isActive, timeout_queue.h:81-83
isActive(heap, owner) == \E r \in heap : r.owner = owner

\* TimeoutHandle::clearTimeout, timeout_queue.h:86-91
clearTimeout(heap, owner) == {r \in heap : r.owner # owner}

\* TimeoutHandle::setTimeout, timeout_queue.h:94-100, called at clock t
setTimeout(heap, owner, delayMs, t) ==
    clearTimeout(heap, owner) \cup {[owner |-> owner, expiration |-> t + delayMs]}

\* The records top() may return.
HeapTops(heap) == {r \in heap : \A q \in heap : r.expiration <= q.expiration}

----------------------------------------------------------------------------
(* IncomingSplitPacket and IncomingSplitBuffer, split.cpp:9-137.            *)
(*                                                                         *)
(* A received SPLIT packet is                                              *)
(*   [seqnum, chunk_count, chunk_num, is_reliable, contents]               *)
(* with chunk_num < chunk_count and contents non-empty, as parse() leaves  *)
(* it.  A group (IncomingSplitPacket) is                                   *)
(*   [id, m_seqnum, m_chunk_count, m_reliable, m_chunks, accepted]         *)
(* where m_chunks maps chunk_num to the stored packet's contents and       *)
(* accepted lists the packets stored into m_chunks in order of arrival.    *)
(***************************************************************************)

\* Faulty variant: the timeout is armed for reliable groups too.
resetTimeout_AlwaysArm(heap, sp, t) ==
    setTimeout(heap, sp.id, SPLIT_TIMEOUT_MS, t)

\* IncomingSplitPacket::resetTimeout, split.cpp:28-35
resetTimeout(heap, sp, t) ==
    IF ~sp.m_reliable
    THEN setTimeout(heap, sp.id, SPLIT_TIMEOUT_MS, t)
    ELSE heap

\* Faulty variant: complete with one chunk still missing.
allReceived_OneShort(sp) == Cardinality(DOMAIN sp.m_chunks) + 1 >= sp.m_chunk_count

\* IncomingSplitPacket::allReceived, split.cpp:37-40
allReceived(sp) == Cardinality(DOMAIN sp.m_chunks) = sp.m_chunk_count

\* IncomingSplitPacket::IncomingSplitPacket, split.cpp:13-26 (without the
\* resetTimeout() call, which the caller applies to the heap)
NewSplitPacket(id, rpkt) ==
    [id |-> id,
     m_seqnum |-> rpkt.seqnum,
     m_chunk_count |-> rpkt.chunk_count,
     m_reliable |-> rpkt.is_reliable,
     m_chunks |-> EmptyMap,
     accepted |-> <<>>]

\* Faulty variant: a chunk that is already stored re-arms the timeout.
IncomingSplitPacket_insert_RearmDuplicate(sp, heap, rpkt, t) ==
    IF ~(rpkt.chunk_num < sp.m_chunk_count)
    THEN [sp |-> sp, heap |-> heap, aborted |-> TRUE]
    ELSE IF sp.m_chunk_count # rpkt.chunk_count
    THEN [sp |-> sp, heap |-> heap, aborted |-> FALSE]
    ELSE IF rpkt.chunk_num \in DOMAIN sp.m_chunks
    THEN [sp |-> sp, heap |-> resetTimeout(heap, sp, t), aborted |-> FALSE]
    ELSE [sp |-> [sp EXCEPT
                    !.m_chunks = [n \in DOMAIN @ \cup {rpkt.chunk_num} |->
                                    IF n = rpkt.chunk_num THEN rpkt.contents ELSE @[n]],
                    !.accepted = Append(@, rpkt)],
          heap |-> resetTimeout(heap, sp, t),
          aborted |-> FALSE]

\* IncomingSplitPacket::insert, split.cpp:42-67: the group and the heap after
\* the call; aborted when the sanity_check fails.
IncomingSplitPacket_insert(sp, heap, rpkt, t) ==
    IF ~(rpkt.chunk_num < sp.m_chunk_count)
    THEN [sp |-> sp, heap |-> heap, aborted |-> TRUE]
    ELSE IF sp.m_chunk_count # rpkt.chunk_count
    THEN [sp |-> sp, heap |-> heap, aborted |-> FALSE]
    ELSE IF rpkt.chunk_num \in DOMAIN sp.m_chunks
    THEN [sp |-> sp, heap |-> heap, aborted |-> FALSE]
    ELSE [sp |-> [sp EXCEPT
                    !.m_chunks = [n \in DOMAIN @ \cup {rpkt.chunk_num} |->
                                    IF n = rpkt.chunk_num THEN rpkt.contents ELSE @[n]],
                    !.accepted = Append(@, rpkt)],
          heap |-> resetTimeout(heap, sp, t),
          aborted |-> FALSE]

Least(S) == CHOOSE n \in S : \A m \in S : n <= m
Greatest(S) == CHOOSE n \in S : \A m \in S : n >= m

\* Faulty variant: the chunks are copied in descending key order.
RECURSIVE CopyChunks_Descending(_, _, _)
CopyChunks_Descending(chunks, left, fulldata) ==
    IF left = {} THEN fulldata
    ELSE LET n == Greatest(left)
         IN  CopyChunks_Descending(chunks, left \ {n}, fulldata \o chunks[n])

\* The copy loop of reassemble(), split.cpp:80-84: the chunks of the std::map
\* in key order, each copied behind the one before.
RECURSIVE CopyChunks(_, _, _)
CopyChunks(chunks, left, fulldata) ==
    IF left = {} THEN fulldata
    ELSE LET n == Least(left)
         IN  CopyChunks(chunks, left \ {n}, fulldata \o chunks[n])

\* IncomingSplitPacket::reassemble, split.cpp:69-87: sanity_check(allReceived())
\* at line 70 aborts the process for an incomplete group; otherwise the copy
\* loop fills fulldata, and offset == totalsize at line 85 holds by
\* construction.
reassemble(sp) ==
    IF ~allReceived(sp)
    THEN [aborted |-> TRUE, fulldata |-> <<>>]
    ELSE [aborted |-> FALSE, fulldata |-> CopyChunks(sp.m_chunks, DOMAIN sp.m_chunks, <<>>)]

MapWithout(f, k) == [x \in DOMAIN f \ {k} |-> f[x]]
MapWith(f, k, v) == [x \in DOMAIN f \cup {k} |-> IF x = k THEN v ELSE f[x]]

\* Faulty variant: the completed group is delivered but neither erased from
\* m_buf nor deleted.
IncomingSplitBuffer_insert_KeepCompleted(st, rpkt, t) ==
    LET seqnum == rpkt.seqnum
        found == seqnum \in DOMAIN st.buf
        created == NewSplitPacket(st.next_id, rpkt)
        sp0 == IF found THEN st.buf[seqnum] ELSE created
        heap0 == IF found THEN st.heap ELSE resetTimeout(st.heap, created, t)
        next_id == IF found THEN st.next_id ELSE st.next_id + 1
        r == IncomingSplitPacket_insert(sp0, heap0, rpkt, t)
    IN  IF r.aborted
        THEN [st EXCEPT !.aborted = TRUE]
        ELSE [st EXCEPT
                !.buf = MapWith(@, seqnum, r.sp),
                !.heap = r.heap,
                !.next_id = next_id,
                !.received = IF allReceived(r.sp)
                             THEN Append(@, [id |-> r.sp.id,
                                             seqnum |-> seqnum,
                                             chunk_count |-> r.sp.m_chunk_count,
                                             accepted |-> r.sp.accepted,
                                             data |-> reassemble(r.sp).fulldata])
                             ELSE @]

\* IncomingSplitBuffer::insert, split.cpp:103-127, at clock t, on
\* st = [buf, heap, next_id, received, aborted].
IncomingSplitBuffer_insert(st, rpkt, t) ==
    LET seqnum == rpkt.seqnum
        found == seqnum \in DOMAIN st.buf
        created == NewSplitPacket(st.next_id, rpkt)
        sp0 == IF found THEN st.buf[seqnum] ELSE created
        heap0 == IF found THEN st.heap ELSE resetTimeout(st.heap, created, t)
        next_id == IF found THEN st.next_id ELSE st.next_id + 1
        r == IncomingSplitPacket_insert(sp0, heap0, rpkt, t)
    IN  IF r.aborted
        THEN [st EXCEPT !.aborted = TRUE]
        ELSE IF allReceived(r.sp)
        THEN IF reassemble(r.sp).aborted
             THEN [st EXCEPT !.aborted = TRUE]
             ELSE [st EXCEPT
                !.buf = MapWithout(@, seqnum),
                !.heap = clearTimeout(r.heap, r.sp.id),     \* delete sp
                !.next_id = next_id,
                !.received = Append(@, [id |-> r.sp.id,
                                        seqnum |-> seqnum,
                                        chunk_count |-> r.sp.m_chunk_count,
                                        accepted |-> r.sp.accepted,
                                        data |-> reassemble(r.sp).fulldata])]
        ELSE [st EXCEPT
                !.buf = MapWith(@, seqnum, r.sp),
                !.heap = r.heap,
                !.next_id = next_id]

\* Faulty variant: the timed-out group stays in m_buf.
handleTimeout_KeepGroup(st, owner, expiration, t) ==
    [st EXCEPT !.heap = clearTimeout(@, owner),
               !.evicted = Append(@, [id |-> owner, seqnum |-> 0,
                                      expiration |-> expiration, at |-> t])]

\* IncomingSplitBuffer::handleTimeout, split.cpp:129-137, for the group owner
\* at clock t; recorded in st.evicted.
handleTimeout(st, owner, expiration, t) ==
    LET hit == {k \in DOMAIN st.buf : st.buf[k].id = owner}
    IN  IF hit = {}
        THEN [st EXCEPT !.aborted = TRUE]       \* sanity_check(it != m_buf.end())
        ELSE LET k == CHOOSE x \in hit : TRUE
             IN  [st EXCEPT
                    !.buf = MapWithout(@, k),
                    !.heap = clearTimeout(@, owner),        \* delete sp
                    !.evicted = Append(@, [id |-> owner, seqnum |-> k,
                                           expiration |-> expiration, at |-> t])]

\* TimeoutQueue::processTimeouts, timeout_queue.h:47-58, at clock t: the set of
\* states the loop can end in.
RECURSIVE processTimeouts(_, _)
processTimeouts(st, t) ==
    IF st.aborted \/ st.heap = {} \/ (\A r \in st.heap : ~(r.expiration < t))
    THEN {st}
    ELSE UNION {
        processTimeouts(
            handleTimeout([st EXCEPT !.heap = @ \ {node}], node.owner, node.expiration, t),
            t)
        : node \in HeapTops(st.heap) }

(* SpecSplit: the packets that arrive.  Group 7 is sent unreliably in three *)
(* chunks and group 8 reliably in two; besides them arrive a chunk 0 of     *)
(* group 7 with other contents inside a reliable envelope, a two-chunk      *)
(* packet under split seqnum 7, an unreliable chunk of group 8, and the     *)
(* single chunk of group 9.                                                 *)

SplitPkt(seqnum, chunk_count, chunk_num, is_reliable, contents) ==
    [seqnum |-> seqnum, chunk_count |-> chunk_count, chunk_num |-> chunk_num,
     is_reliable |-> is_reliable, contents |-> contents]

SplitPackets ==
    { SplitPkt(7, 3, 0, FALSE, <<10>>),
      SplitPkt(7, 3, 1, FALSE, <<20, 21>>),
      SplitPkt(7, 3, 2, FALSE, <<30>>),
      SplitPkt(7, 3, 0, TRUE,  <<11, 12>>),
      SplitPkt(7, 2, 0, FALSE, <<40>>),
      SplitPkt(7, 2, 1, FALSE, <<50, 51>>),
      SplitPkt(8, 2, 0, TRUE,  <<60, 61>>),
      SplitPkt(8, 2, 1, TRUE,  <<70>>),
      SplitPkt(8, 2, 1, FALSE, <<71>>),
      SplitPkt(9, 1, 0, FALSE, <<80>>) }

Ticks == {SPLIT_TIMEOUT_MS \div 2, SPLIT_TIMEOUT_MS \div 2 + 1}

SplitState ==
    [buf |-> m_buf, heap |-> m_heap, next_id |-> sp_next_id,
     received |-> sp_received, evicted |-> sp_evicted, aborted |-> sp_aborted]

SplitUpdate(out) ==
    /\ m_buf' = out.buf
    /\ m_heap' = out.heap
    /\ sp_next_id' = out.next_id
    /\ sp_received' = out.received
    /\ sp_evicted' = out.evicted
    /\ sp_aborted' = out.aborted

InitSplit ==
    /\ SplitIdle
    /\ FnIdle
    /\ RelIdle
    /\ HeapIdle
    /\ TqIdle
    /\ PkIdle
    /\ AlIdle

SplitInsert ==
    /\ ~sp_aborted
    /\ sp_n < MaxSplitInserts
    /\ \E rpkt \in SplitPackets :
         SplitUpdate(IncomingSplitBuffer_insert(SplitState, rpkt, now))
    /\ sp_n' = sp_n + 1
    /\ UNCHANGED <<now, sp_ticks, fnVars, relVars, heapVars, tqVars, pkVars, alVars>>

Tick ==
    /\ ~sp_aborted
    /\ sp_ticks < MaxTicks
    /\ \E d \in Ticks : now' = now + d
    /\ sp_ticks' = sp_ticks + 1
    /\ UNCHANGED <<m_buf, m_heap, sp_next_id, sp_n, sp_received, sp_evicted, sp_aborted,
                   fnVars, relVars, heapVars, tqVars, pkVars, alVars>>

ProcessTimeouts ==
    /\ ~sp_aborted
    /\ \E out \in processTimeouts(SplitState, now) : SplitUpdate(out)
    /\ UNCHANGED <<now, sp_n, sp_ticks, fnVars, relVars, heapVars, tqVars, pkVars, alVars>>

NextSplit == SplitInsert \/ Tick \/ ProcessTimeouts

SpecSplit == InitSplit /\ [][NextSplit]_vars

(* SpecReenter: SpecSplit with data-received callbacks that insert a packet  *)
(* into the buffer they were called from.  m_data_received is the last       *)
(* statement of insert() (split.cpp:125), so the inner insert() finds the    *)
(* buffer as the outer one leaves it.                                        *)

\* m_data_received (split.cpp:125) for a callback that inserts `inner`.
m_data_received(st, inner, t) == IncomingSplitBuffer_insert(st, inner, t)

\* IncomingSplitBuffer::insert with such a callback: the callback runs if the
\* packet completed its group.
IncomingSplitBuffer_insert_reentered(st, rpkt, inner, t) ==
    IF Len(IncomingSplitBuffer_insert(st, rpkt, t).received) > Len(st.received)
    THEN m_data_received(IncomingSplitBuffer_insert(st, rpkt, t), inner, t)
    ELSE IncomingSplitBuffer_insert(st, rpkt, t)

SplitInsertReentered ==
    /\ ~sp_aborted
    /\ sp_n + 2 <= MaxSplitInserts + 1
    /\ \E rpkt \in SplitPackets, inner \in SplitPackets :
         /\ Len(IncomingSplitBuffer_insert(SplitState, rpkt, now).received) >
               Len(sp_received)
         /\ SplitUpdate(IncomingSplitBuffer_insert_reentered(SplitState, rpkt, inner, now))
    /\ sp_n' = sp_n + 2
    /\ UNCHANGED <<now, sp_ticks, fnVars, relVars, heapVars, tqVars, pkVars, alVars>>

NextReenter == NextSplit \/ SplitInsertReentered

SpecReenter == InitSplit /\ [][NextReenter]_vars

----------------------------------------------------------------------------
(* Claims on the split buffer *)

\* The contents of the accepted packet of chunk number n of a delivery.
ChunkOf(r, n) ==
    LET i == CHOOSE j \in 1..Len(r.accepted) : r.accepted[j].chunk_num = n
    IN  r.accepted[i].contents

\* Where chunk n starts in the reassembled buffer: the lengths of the chunks of
\* smaller chunk_num, summed.
RECURSIVE ChunkOffset(_, _)
ChunkOffset(r, n) ==
    IF n = 0 THEN 0 ELSE ChunkOffset(r, n - 1) + Len(ChunkOf(r, n - 1))

\* C10: the buffer handed to the data-received callback for a group of C chunks
\* is the concatenation of the C chunk payloads in ascending chunk_num order
\* 0, 1, ..., C-1, in whatever order the chunks arrived: byte i of chunk n is
\* at position i behind the total length of the chunks 0..n-1, and the buffer
\* is as long as all the chunks together.
C10_ConcatAscending ==
    \A x \in 1..Len(sp_received) :
        LET r == sp_received[x]
            C == r.chunk_count
        IN  /\ {r.accepted[j].chunk_num : j \in 1..Len(r.accepted)} = 0..(C - 1)
            /\ Len(r.accepted) = C
            /\ Len(r.data) = ChunkOffset(r, C)
            /\ \A n \in 0..(C - 1) : \A i \in 1..Len(ChunkOf(r, n)) :
                   r.data[ChunkOffset(r, n) + i] = ChunkOf(r, n)[i]

\* The three chunks of group 7 arrived in the order 2, 0, 1 and were delivered
\* as chunk 0, chunk 1, chunk 2.
C10_Witness ==
    \E x \in 1..Len(sp_received) :
        LET r == sp_received[x]
        IN  /\ r.chunk_count = 3
            /\ r.accepted[1].chunk_num = 2
            /\ r.accepted[2].chunk_num = 0
            /\ r.accepted[3].chunk_num = 1
            /\ r.data = <<10, 20, 21, 30>>

\* The chunk numbers of the packets a delivery was assembled from.
AcceptedNums(r) == {r.accepted[j].chunk_num : j \in 1..Len(r.accepted)}

\* The groups handed to the data-received callback so far, by identity.
DeliveredIds == {sp_received[x].id : x \in 1..Len(sp_received)}

\* One step of the split buffer, seen from the data-received callback.
C11_Step ==
    /\ Len(sp_received') <= Len(sp_received) + 1
    /\ \A k \in DOMAIN m_buf' :
           /\ m_buf'[k].id \notin {sp_received'[x].id : x \in 1..Len(sp_received')}
           /\ DOMAIN m_buf'[k].m_chunks # 0..(m_buf'[k].m_chunk_count - 1)
    /\ sp_received' # sp_received =>
           LET r == sp_received'[Len(sp_received')]
               C == r.chunk_count
               last == r.accepted[Len(r.accepted)]
           IN  /\ sp_received' = Append(sp_received, r)
               /\ sp_n' = sp_n + 1
               /\ r.id \notin DeliveredIds
               /\ Len(r.accepted) = C
               /\ AcceptedNums(r) = 0..(C - 1)
               /\ C > 1 =>
                      /\ r.seqnum \in DOMAIN m_buf
                      /\ m_buf[r.seqnum].id = r.id
                      /\ DOMAIN m_buf[r.seqnum].m_chunks = (0..(C - 1)) \ {last.chunk_num}
               /\ \A k \in DOMAIN m_buf' : m_buf'[k].id # r.id

\* C11: for a split group of C chunks the data-received callback is invoked
\* exactly once, during the insert() call that supplies the last missing
\* chunk_num, and never while a chunk_num in 0..C-1 of the group is missing; a
\* duplicate chunk arriving before completion neither triggers nor repeats the
\* delivery.
C11_DeliveredOnLastChunk == [][C11_Step]_vars

\* Three insert() calls were made for one group of two chunks, so one of them
\* brought a duplicate, and the group was delivered once.
C11_Witness ==
    /\ sp_n = 3
    /\ sp_next_id = 1
    /\ m_buf = EmptyMap
    /\ Len(sp_received) = 1
    /\ sp_received[1].seqnum = 8
    /\ sp_received[1].chunk_count = 2

\* The groups removed by handleTimeout so far, by identity.
EvictedIds == {sp_evicted[x].id : x \in 1..Len(sp_evicted)}

\* The groups resident in a split buffer, by identity.
ResidentIds(buf) == {buf[k].id : k \in DOMAIN buf}

\* The timeout records of the group a delivery was made for, as they were
\* before the insert() call that completed it.
RecordsOfCompleted ==
    LET r == sp_received'[Len(sp_received')]
    IN  {rec \in m_heap : r.seqnum \in DOMAIN m_buf /\ m_buf[r.seqnum].id = rec.owner}

\* C12 as stated: an unreliable split group still missing a chunk once more
\* than SPLIT_TIMEOUT_MS have passed is never delivered: no chunk arriving
\* after the deadline has passed completes the group, whatever the
\* interleaving of insert() and processTimeouts() calls.
C12_NoLateCompletion ==
    [][sp_received' # sp_received =>
          \A rec \in RecordsOfCompleted : ~(rec.expiration < now)]_vars

\* One step of the split buffer, seen from the timeout queue.
C12_Step ==
    \* insert(): an accepted chunk re-arms the group's timeout
    /\ sp_n' = sp_n + 1 =>
          /\ sp_evicted' = sp_evicted
          /\ \A k \in DOMAIN m_buf' :
                LET g == m_buf'[k]
                    stored == k \in DOMAIN m_buf /\ m_buf[k].m_chunks = g.m_chunks
                    recs == {rec \in m_heap' : rec.owner = g.id}
                IN  IF g.m_reliable THEN recs = {}
                    ELSE IF stored THEN recs = {rec \in m_heap : rec.owner = g.id}
                    ELSE recs = {[owner |-> g.id, expiration |-> now + SPLIT_TIMEOUT_MS]}
    \* processTimeouts(): exactly the groups whose deadline has passed go
    /\ (sp_n' = sp_n /\ now' = now) =>
          /\ sp_received' = sp_received
          /\ m_heap' = {rec \in m_heap : ~(rec.expiration < now)}
          /\ ResidentIds(m_buf') =
                ResidentIds(m_buf) \ {rec.owner : rec \in m_heap \ m_heap'}
          /\ {sp_evicted'[x].id : x \in 1..Len(sp_evicted')} =
                EvictedIds \cup {rec.owner : rec \in m_heap \ m_heap'}
    \* an evicted group is gone for good
    /\ \A x \in 1..Len(sp_evicted') :
          /\ sp_evicted'[x].id \notin ResidentIds(m_buf')
          /\ sp_evicted'[x].id \notin {sp_received'[y].id : y \in 1..Len(sp_received')}
          /\ sp_evicted'[x].expiration < sp_evicted'[x].at

\* C12 amended: an unreliable split group is evicted by the first
\* processTimeouts() call made more than SPLIT_TIMEOUT_MS after its creation
\* or its last stored chunk, and from then on it is never delivered; a reliable
\* group is never evicted.  Until that call the group stays in the buffer and a
\* chunk arriving after the deadline is stored like any other.
C12_EvictedByProcessTimeouts == [][C12_Step]_vars

\* Chunk 0 of a two-chunk unreliable group arrived, more than SPLIT_TIMEOUT_MS
\* passed, processTimeouts() evicted the group, and chunk 1 arriving afterwards
\* opened a new group instead of completing the old one.
C12_Witness ==
    /\ Len(sp_evicted) = 1
    /\ sp_evicted[1].seqnum = 7
    /\ sp_received = <<>>
    /\ 7 \in DOMAIN m_buf
    /\ m_buf[7].id # sp_evicted[1].id
    /\ DOMAIN m_buf[7].m_chunks = {1}
    /\ m_buf[7].m_chunk_count = 2

\* C13: when a SPLIT packet accepted by the parser arrives for an existing
\* group whose chunk_count differs from the packet's, insert() returns normally
\* whatever the packet's chunk_num, the packet is dropped, and the group (its
\* stored chunks, chunk_count and timeout) is left as it was.
C13_MismatchIgnored ==
    ~sp_aborted =>
        \A rpkt \in SplitPackets :
            (/\ rpkt.chunk_num < rpkt.chunk_count
             /\ rpkt.seqnum \in DOMAIN m_buf
             /\ m_buf[rpkt.seqnum].m_chunk_count # rpkt.chunk_count)
            => IncomingSplitBuffer_insert(SplitState, rpkt, now) = SplitState

----------------------------------------------------------------------------
(* BinHeap, binheap.h.                                                      *)
(*                                                                         *)
(* A heap h is [is_less_than, m_size, m_root, node, failed]: node maps     *)
(* each node that exists to its fields [value, in_heap, parent, left,      *)
(* right], pointers are node numbers or NULL, and in_heap tells whether    *)
(* the node's back-pointer is this heap.  A node_type** is a slot: the      *)
(* heap's m_root, or the left or right field of a node.                     *)
(***************************************************************************)

\* A u64 of the timeout queue is written as its residue modulo 2^64 nearest
\* to 0: 0, 1, 2, ... stand for themselves and -1, -2, ... for 2^64 - 1,
\* 2^64 - 2, ...  The u64 sum and difference of two such values are their
\* integer sum and difference, as long as these stay near 0.
\* The greatest u64, 2^64 - 1.
U64_MAX == 0 - 1

\* a < b between u64 values (timeout_queue.h:17, 41, 52): the values from
\* 2^63 on, written below 0, are the greater ones.
U64Less(a, b) == IF (a < 0) = (b < 0) THEN a < b ELSE b < 0

\* Faulty variant: every comparison is turned around.
is_less_than_Reversed(h, a, b) ==
    CASE h.is_less_than = "less" -> a > b
      [] h.is_less_than = "greater" -> a < b
      [] h.is_less_than = "TimeoutRecord" -> U64Less(b.expiration, a.expiration)

\* Compare: std::less, std::greater, or std::less over TimeoutRecord with its
\* operator< (timeout_queue.h:16-18)
is_less_than(h, a, b) ==
    CASE h.is_less_than = "less" -> a < b
      [] h.is_less_than = "greater" -> a > b
      [] h.is_less_than = "TimeoutRecord" -> U64Less(a.expiration, b.expiration)

\* A failed assert or sanity_check.
Fail(h) == [h EXCEPT !.failed = TRUE]

RootSlot == [kind |-> "m_root", of |-> NULL]
FieldSlot(n, field) == [kind |-> field, of |-> n]

\* *slot
Deref(h, slot) ==
    IF slot.kind = "m_root" THEN h.m_root ELSE h.node[slot.of][slot.kind]

\* *slot = v
Store(h, slot, v) ==
    IF slot.kind = "m_root" THEN [h EXCEPT !.m_root = v]
    ELSE [h EXCEPT !.node[slot.of][slot.kind] = v]

\* The assignments n->field = v of ws = << <<n, field, v>>, ... >>, in order.
RECURSIVE Assign(_, _)
Assign(h, ws) ==
    IF ws = <<>> THEN h
    ELSE LET w == Head(ws)
         IN  Assign([h EXCEPT !.node[w[1]][w[2]] = w[3]], Tail(ws))

\* BinHeap::remove_recursively, binheap.h:368-375
RECURSIVE remove_recursively(_, _)
remove_recursively(h, node) ==
    IF node = NULL THEN h
    ELSE remove_recursively(
             remove_recursively([h EXCEPT !.node[node].in_heap = FALSE],
                                h.node[node].left),
             h.node[node].right)

\* Variant: clear() resets the root pointer as well.
BinHeap_clear_ResetRoot(h) ==
    [remove_recursively(h, h.m_root) EXCEPT !.m_size = 0, !.m_root = NULL]

\* BinHeap::clear, binheap.h:109-113
BinHeap_clear(h) ==
    [remove_recursively(h, h.m_root) EXCEPT !.m_size = 0]

\* BinHeap::size, binheap.h:119-122
size(h) == h.m_size

\* BinHeap::empty, binheap.h:124-127
empty(h) == h.m_size = 0

\* BinHeap::top, binheap.h:186-189
top(h) == h.m_root

\* BinHeapNode::inHeap, binheap.h:74-77
inHeap(h, n) == h.node[n].in_heap

\* The first loop of find_index, binheap.h:221-226: the bits of index after
\* the leading 1, reversed, below a marker bit.
RECURSIVE ReversePath(_, _)
ReversePath(index, path) ==
    IF index > 1
    THEN ReversePath(index \div 2, (path * 2) + (index % 2))
    ELSE path

\* The second loop of find_index, binheap.h:227-234.
RECURSIVE WalkPath(_, _, _, _)
WalkPath(h, path, parent, cursor) ==
    IF path > 1
    THEN IF Deref(h, cursor) = NULL
         THEN [ok |-> FALSE, parent |-> parent, cursor |-> cursor]
         ELSE WalkPath(h, path \div 2, cursor,
                       FieldSlot(Deref(h, cursor),
                                 IF path % 2 = 1 THEN "right" ELSE "left"))
    ELSE [ok |-> TRUE, parent |-> parent, cursor |-> cursor]

\* BinHeap::find_index, binheap.h:214-235
find_index(h, index) ==
    IF index > 0
    THEN WalkPath(h, ReversePath(index, 1), RootSlot, RootSlot)
    ELSE [ok |-> FALSE, parent |-> RootSlot, cursor |-> RootSlot]

\* BinHeap::change_child, binheap.h:261-273
change_child(h, parent, child, newchild) ==
    IF h.failed THEN h
    ELSE IF parent = NULL
    THEN IF h.m_root = child THEN [h EXCEPT !.m_root = newchild] ELSE Fail(h)
    ELSE IF h.node[parent].left = child
    THEN [h EXCEPT !.node[parent].left = newchild]
    ELSE IF h.node[parent].right = child
    THEN [h EXCEPT !.node[parent].right = newchild]
    ELSE Fail(h)

\* BinHeap::change_parent, binheap.h:275-281
change_parent(h, child, parent, newparent) ==
    IF h.failed \/ child = NULL THEN h
    ELSE IF h.node[child].parent = parent
    THEN [h EXCEPT !.node[child].parent = newparent]
    ELSE Fail(h)

\* if (n) n->parent = p
SetParentIf(n, p) == IF n = NULL THEN <<>> ELSE << <<n, "parent", p>> >>

\* The pointer writes of swap_left_child that follow its change_child,
\* with r = parent->right, ll = child->left and lr = child->right
swap_left_child_links(h1, parent, child, r, ll, lr) ==
    IF h1.failed THEN h1
    ELSE Assign(h1, << <<child, "parent", h1.node[parent].parent>>,
                       <<child, "left", parent>>,
                       <<child, "right", r>>,
                       <<parent, "parent", child>>,
                       <<parent, "left", ll>>,
                       <<parent, "right", lr>> >>
                    \o SetParentIf(ll, parent)
                    \o SetParentIf(lr, parent)
                    \o SetParentIf(r, child))

\* BinHeap::swap_left_child, binheap.h:283-301
swap_left_child(h, parent, child) ==
    swap_left_child_links(change_child(h, h.node[parent].parent, parent, child),
                          parent, child, h.node[parent].right,
                          h.node[child].left, h.node[child].right)

\* The pointer writes of swap_right_child that follow its change_child,
\* with l = parent->left, rl = child->left and rr = child->right
swap_right_child_links(h1, parent, child, l, rl, rr) ==
    IF h1.failed THEN h1
    ELSE Assign(h1, << <<child, "parent", h1.node[parent].parent>>,
                       <<child, "left", l>>,
                       <<child, "right", parent>>,
                       <<parent, "parent", child>>,
                       <<parent, "left", rl>>,
                       <<parent, "right", rr>> >>
                    \o SetParentIf(rl, parent)
                    \o SetParentIf(rr, parent)
                    \o SetParentIf(l, child))

\* BinHeap::swap_right_child, binheap.h:303-321
swap_right_child(h, parent, child) ==
    swap_right_child_links(change_child(h, h.node[parent].parent, parent, child),
                           parent, child, h.node[parent].left,
                           h.node[child].left, h.node[child].right)

\* std::swap(a->field, b->field)
SwapField(h, a, b, field) ==
    Assign(h, << <<a, field, h.node[b][field]>>, <<b, field, h.node[a][field]>> >>)

\* BinHeap::swap_same_parent, binheap.h:323-330
swap_same_parent(h, node1, node2) ==
    LET parent == h.node[node1].parent
    IN  IF h.node[node1].parent # h.node[node2].parent \/ parent = NULL
        THEN Fail(h)
        ELSE LET h1 == Assign(h, << <<parent, "left", h.node[parent].right>>,
                                    <<parent, "right", h.node[parent].left>> >>)
                 h2 == SwapField(h1, node1, node2, "left")
             IN  SwapField(h2, node1, node2, "right")

\* change_child(node->parent, node, other), binheap.h:353-354
change_parents_child(h, node, other) ==
    IF h.failed THEN h ELSE change_child(h, h.node[node].parent, node, other)

\* change_parent(node->left, node, other), binheap.h:357, 359
change_left_parent(h, node, other) ==
    IF h.failed THEN h ELSE change_parent(h, h.node[node].left, node, other)

\* change_parent(node->right, node, other), binheap.h:358, 360
change_right_parent(h, node, other) ==
    IF h.failed THEN h ELSE change_parent(h, h.node[node].right, node, other)

\* The three std::swap of swap_distant, binheap.h:363-365
swap_distant_fields(h, node1, node2) ==
    IF h.failed THEN h
    ELSE SwapField(SwapField(SwapField(h, node1, node2, "parent"),
                             node1, node2, "left"),
                   node1, node2, "right")

\* BinHeap::swap_distant, binheap.h:350-366
swap_distant(h, node1, node2) ==
    swap_distant_fields(
        change_right_parent(
            change_left_parent(
                change_right_parent(
                    change_left_parent(
                        change_parents_child(
                            change_parents_child(h, node1, node2),
                            node2, node1),
                        node1, node2),
                    node1, node2),
                node2, node1),
            node2, node1),
        node1, node2)

\* BinHeap::swap_nodes, binheap.h:332-348
swap_nodes(h, node1, node2) ==
    IF h.failed THEN h
    ELSE IF h.node[node1].parent = h.node[node2].parent
    THEN swap_same_parent(h, node1, node2)
    ELSE IF h.node[node1].left = node2 THEN swap_left_child(h, node1, node2)
    ELSE IF h.node[node1].right = node2 THEN swap_right_child(h, node1, node2)
    ELSE IF h.node[node2].left = node1 THEN swap_left_child(h, node2, node1)
    ELSE IF h.node[node2].right = node1 THEN swap_right_child(h, node2, node1)
    ELSE swap_distant(h, node1, node2)

\* BinHeap::sift_up, binheap.h:237-243
RECURSIVE sift_up(_, _)
sift_up(h, node) ==
    IF h.failed THEN h
    ELSE LET parent == h.node[node].parent
         IN  IF parent # NULL /\ is_less_than(h, h.node[node].value, h.node[parent].value)
             THEN sift_up(swap_nodes(h, parent, node), node)
             ELSE h

\* The node sift_down moves up next, binheap.h:250-254
NewMin(h, node) ==
    LET l == h.node[node].left
        r == h.node[node].right
        m1 == IF l # NULL /\ is_less_than(h, h.node[l].value, h.node[node].value)
              THEN l ELSE node
    IN  IF r # NULL /\ is_less_than(h, h.node[r].value, h.node[m1].value)
        THEN r ELSE m1

\* Faulty variant: the right child is never looked at.
RECURSIVE sift_down_LeftOnly(_, _)
sift_down_LeftOnly(h, node) ==
    IF h.failed THEN h
    ELSE LET l == h.node[node].left
         IN  IF l # NULL /\ is_less_than(h, h.node[l].value, h.node[node].value)
             THEN sift_down_LeftOnly(swap_nodes(h, l, node), node)
             ELSE h

\* BinHeap::sift_down, binheap.h:245-259
RECURSIVE sift_down(_, _)
sift_down(h, node) ==
    IF h.failed THEN h
    ELSE LET new_min == NewMin(h, node)
         IN  IF new_min = node THEN h
             ELSE sift_down(swap_nodes(h, new_min, node), node)

\* BinHeap::insert, binheap.h:129-149
BinHeap_insert(h, node) ==
    IF h.failed THEN h
    ELSE IF h.node[node].in_heap THEN Fail(h)
    ELSE LET f == find_index(h, h.m_size + 1)
         IN  IF ~f.ok THEN Fail(h)
             ELSE IF Deref(h, f.cursor) # NULL THEN Fail(h)
             ELSE LET h1 == Assign(h, << <<node, "in_heap", TRUE>>,
                                         <<node, "parent", Deref(h, f.parent)>>,
                                         <<node, "left", NULL>>,
                                         <<node, "right", NULL>> >>)
                      h2 == Store(h1, f.cursor, node)
                      h3 == [h2 EXCEPT !.m_size = @ + 1]
                  IN  sift_up(h3, node)

\* The end of remove(), binheap.h:169-180, with node in the terminal position.
RemoveTerminal(h, node, terminal) ==
    IF h.failed THEN h
    ELSE IF h.node[node].left # NULL \/ h.node[node].right # NULL THEN Fail(h)
    ELSE LET h1 == change_child(h, h.node[node].parent, node, NULL)
         IN  IF h1.failed THEN h1
             ELSE LET h2 == [h1 EXCEPT !.node[node].in_heap = FALSE, !.m_size = @ - 1]
                  IN  IF terminal # node
                      THEN sift_up(sift_down(h2, terminal), terminal)
                      ELSE h2

\* Faulty variant: after the swap the moved node is only sifted down.
BinHeap_remove_NoSiftUp(h, node) ==
    LET f == find_index(h, h.m_size)
        terminal == Deref(h, f.cursor)
        h1 == IF terminal # node THEN swap_nodes(h, node, terminal) ELSE h
        h2 == change_child(h1, h1.node[node].parent, node, NULL)
        h3 == [h2 EXCEPT !.node[node].in_heap = FALSE, !.m_size = @ - 1]
    IN  IF terminal # node THEN sift_down(h3, terminal) ELSE h3

\* Faulty variant: the node in the terminal position is unlinked, whatever
\* node was asked for.
BinHeap_remove_Terminal(h, node) ==
    LET f == find_index(h, h.m_size)
        terminal == Deref(h, f.cursor)
    IN  RemoveTerminal(h, terminal, terminal)

\* BinHeap::remove, binheap.h:151-182
BinHeap_remove(h, node) ==
    IF h.failed THEN h
    ELSE IF ~h.node[node].in_heap \/ ~(h.m_size > 0) THEN Fail(h)
    ELSE LET f == find_index(h, h.m_size)
         IN  IF ~f.ok THEN Fail(h)
             ELSE IF Deref(h, f.parent) = NULL \/ Deref(h, f.cursor) = NULL THEN Fail(h)
             ELSE LET terminal == Deref(h, f.cursor)
                      h1 == IF terminal # node THEN swap_nodes(h, node, terminal) ELSE h
                  IN  RemoveTerminal(h1, node, terminal)

Max(a, b) == IF a >= b THEN a ELSE b

RECURSIVE Pow2(_)
Pow2(n) == IF n = 0 THEN 1 ELSE 2 * Pow2(n - 1)

\* BinHeap::_validate, binheap.h:378-401: whether every SANITY_CHECK below base
\* passes, and the count and depth found.  The walk gives up below level
\* levels, where the stack of the recursion would be exhausted.
RECURSIVE BinHeap_validate_rec(_, _, _)
BinHeap_validate_rec(h, base, levels) ==
    IF base = NULL THEN [ok |-> TRUE, count |-> 0, depth |-> 0]
    ELSE IF levels = 0 THEN [ok |-> FALSE, count |-> 0, depth |-> 0]
    ELSE LET b == h.node[base]
             l == BinHeap_validate_rec(h, b.left, levels - 1)
             r == BinHeap_validate_rec(h, b.right, levels - 1)
         IN  [ok |-> /\ b.in_heap
                     /\ b.left # NULL =>
                           /\ ~is_less_than(h, h.node[b.left].value, b.value)
                           /\ h.node[b.left].parent = base
                     /\ b.right # NULL =>
                           /\ ~is_less_than(h, h.node[b.right].value, b.value)
                           /\ h.node[b.right].parent = base
                     /\ l.ok /\ r.ok
                     /\ l.count >= r.count,
              count |-> 1 + l.count + r.count,
              depth |-> 1 + Max(l.depth, r.depth)]

\* BinHeap::validate, binheap.h:193-201
BinHeap_validate(h) ==
    LET v == BinHeap_validate_rec(h, h.m_root, Cardinality(DOMAIN h.node) + 1)
        fullTreeSize == Pow2(v.depth) - 1
    IN  /\ v.ok
        /\ v.count = h.m_size
        /\ v.depth < 64
        /\ fullTreeSize \div 2 <= h.m_size
        /\ h.m_size <= fullTreeSize

----------------------------------------------------------------------------
(* DummyBinHeap and the loop of TestBinHeap::testFuzz, split.cpp:269-374.   *)
(*                                                                         *)
(* dummy is DummyBinHeap::values: a sequence of [value, partner], partner  *)
(* the BinHeap node made together with the entry.                          *)
(***************************************************************************)

\* std::lower_bound under ValueLessThan, split.cpp:290: the first position
\* whose entry is not less than dnode, or one past the end.
LowerBound(values, dnode) ==
    LET notLess == {i \in 1..Len(values) : ~(values[i].value < dnode.value)}
    IN  IF notLess = {} THEN Len(values) + 1 ELSE Least(notLess)

\* DummyBinHeap::insert, split.cpp:289-292
DummyBinHeap_insert(values, dnode) ==
    LET at == LowerBound(values, dnode)
    IN  SubSeq(values, 1, at - 1) \o <<dnode>> \o SubSeq(values, at, Len(values))

\* DummyBinHeap::remove, split.cpp:294-299
DummyBinHeap_remove(values, dnode) ==
    LET it == CHOOSE i \in 1..Len(values) : values[i] = dnode
    IN  SubSeq(values, 1, it - 1) \o SubSeq(values, it + 1, Len(values))

\* The BinHeap nodes that exist: the partners of the dummy entries.
Partners == {dummy[i].partner : i \in 1..Len(dummy)}

\* Where node stands to the node in the terminal position of h.
RelationToTerminal(h, node) ==
    LET terminal == Deref(h, find_index(h, h.m_size).cursor)
    IN  IF node = terminal THEN "terminal"
        ELSE IF h.node[node].parent = h.node[terminal].parent THEN "sibling"
        ELSE IF h.node[terminal].parent = node THEN "parent"
        ELSE IF h.node[node].parent = terminal THEN "child"
        ELSE IF node = h.m_root THEN "top"
        ELSE "unrelated"

\* delete of a BinHeapNode, binheap.h:69-72: the destructor's assert, and the
\* node is gone.
DeleteNode(h, node) ==
    IF h.failed THEN h
    ELSE IF h.node[node].in_heap THEN Fail(h)
    ELSE [h EXCEPT !.node[node] = NewNode(0)]

\* ~BinHeap, binheap.h:103-106, calls clear(), whose remove_recursively
\* writes in_heap into, and reads left and right from, m_root and every node
\* it reaches from there through the links the nodes still hold.  When one of
\* these nodes has been deleted the behaviour is undefined: either the
\* accesses land in the freed memory unnoticed, or they are caught and the run
\* is aborted.
BinHeap_destructor(h, deleted) ==
    LET RECURSIVE Walked(_)
        Walked(node) ==
            IF node = NULL THEN {}
            ELSE IF node \in deleted THEN {node}
            ELSE {node} \cup Walked(h.node[node].left) \cup Walked(h.node[node].right)
    IN  IF Walked(h.m_root) \cap deleted # {}
        THEN {BinHeap_clear(h), Fail(h)}
        ELSE {BinHeap_clear(h)}

InitHeap ==
    /\ \E cmp \in {"less", "greater"} : real = EmptyBinHeap(cmp, HeapNodes)
    /\ dummy = <<>>
    /\ iter = 0
    /\ bh_last = [op |-> "none"]
    /\ FnIdle
    /\ RelIdle
    /\ SplitIdle
    /\ TqIdle
    /\ PkIdle
    /\ AlIdle

\* split.cpp:345-350: a new node with a value v joins both heaps.
FuzzInsert ==
    /\ ~real.failed
    /\ iter < MaxIter
    /\ iter' = iter + 1
    /\ Len(dummy) < MaxHeapNodes
    /\ \E v \in 1..MaxValue :
         LET partner == Least(HeapNodes \ Partners)
             created == [real EXCEPT !.node[partner] = NewNode(v)]
         IN  /\ dummy' = DummyBinHeap_insert(dummy, [value |-> v, partner |-> partner])
             /\ real' = BinHeap_insert(created, partner)
             /\ bh_last' = [op |-> "insert"]
    /\ UNCHANGED <<fnVars, relVars, splitVars, tqVars, pkVars, alVars>>

\* split.cpp:352-359: the node at an index of the dummy leaves both heaps and
\* is deleted.
FuzzRemove ==
    /\ ~real.failed
    /\ iter < MaxIter
    /\ iter' = iter + 1
    /\ \E index \in 1..Len(dummy) :
         LET dnode == dummy[index]
         IN  /\ real' = DeleteNode(BinHeap_remove(real, dnode.partner), dnode.partner)
             /\ dummy' = DummyBinHeap_remove(dummy, dnode)
             /\ bh_last' = [op |-> "remove",
                            rel |-> RelationToTerminal(real, dnode.partner)]
    /\ UNCHANGED <<fnVars, relVars, splitVars, tqVars, pkVars, alVars>>

\* split.cpp:351: nothing to remove in this iteration.
FuzzPass ==
    /\ ~real.failed
    /\ iter < MaxIter
    /\ dummy = <<>>
    /\ iter' = iter + 1
    /\ bh_last' = [op |-> "pass"]
    /\ UNCHANGED <<real, dummy, fnVars, relVars, splitVars, tqVars, pkVars, alVars>>

NextHeap == FuzzInsert \/ FuzzRemove \/ FuzzPass

SpecHeap == InitHeap /\ [][NextHeap]_vars

\* The loop of testFuzz is still running: clear() has not been called.
InLoop == bh_last.op \notin {"clear", "cleanup", "destroyed"}

\* split.cpp:365-366: real.clear() after the loop, for a loop of any length;
\* iter goes out of scope.  bh_last keeps the size the heap had.
FuzzClear ==
    /\ ~real.failed
    /\ InLoop
    /\ real' = BinHeap_clear(real)
    /\ iter' = 0
    /\ bh_last' = [op |-> "clear", size |-> size(real)]
    /\ UNCHANGED <<dummy, fnVars, relVars, splitVars, tqVars, pkVars, alVars>>

\* split.cpp:367-373: the last entry of the dummy and its partner are deleted.
FuzzCleanup ==
    /\ ~real.failed
    /\ ~InLoop
    /\ dummy # <<>>
    /\ LET dnode == dummy[Len(dummy)]
       IN  /\ real' = DeleteNode(real, dnode.partner)
           /\ dummy' = DummyBinHeap_remove(dummy, dnode)
    /\ bh_last' = [op |-> "cleanup", size |-> bh_last.size]
    /\ UNCHANGED <<iter, fnVars, relVars, splitVars, tqVars, pkVars, alVars>>

\* split.cpp:374: the clean-up loop has ended and testFuzz returns, which
\* destroys its local `real`; every node the test created is deleted by then.
FuzzScopeExit ==
    /\ ~real.failed
    /\ bh_last.op \in {"clear", "cleanup"}
    /\ dummy = <<>>
    /\ real' \in BinHeap_destructor(real, HeapNodes \ Partners)
    /\ bh_last' = [op |-> "destroyed", size |-> bh_last.size]
    /\ UNCHANGED <<dummy, iter, fnVars, relVars, splitVars, tqVars, pkVars, alVars>>

NextClear == (InLoop /\ NextHeap) \/ FuzzClear \/ FuzzCleanup \/ FuzzScopeExit

\* testFuzz with its clean-up.
SpecClear == InitHeap /\ [][NextClear]_vars

----------------------------------------------------------------------------
(* TimeoutQueue and TimeoutHandle on the BinHeap, timeout_queue.h.          *)
(*                                                                         *)
(* tq_heap is TimeoutQueue::m_heap; node n of it is the TimeoutHeapNode    *)
(* inside TimeoutHandle n, and its value is a TimeoutRecord [expiration,   *)
(* callback].  A callback is the number of the setTimeout() call that      *)
(* passed it, or NULL; invoking it is recorded, nothing more.              *)
(***************************************************************************)

Handles == 1..MaxHandles

\* TimeoutHandle::isActive, timeout_queue.h:81-83
TimeoutHandle_isActive(heap, handle) == inHeap(heap, handle)

\* Faulty variant: the callback is dropped but the node stays in the heap.
TimeoutHandle_clearTimeout_KeepNode(heap, handle) ==
    IF inHeap(heap, handle)
    THEN [heap EXCEPT !.node[handle].value.callback = NULL]
    ELSE heap

\* node.value.callback = nullptr, timeout_queue.h:89, after the remove
reset_callback(removed, handle) ==
    IF removed.failed THEN removed
    ELSE [removed EXCEPT !.node[handle].value.callback = NULL]

\* TimeoutHandle::clearTimeout, timeout_queue.h:86-91
TimeoutHandle_clearTimeout(heap, handle) ==
    IF inHeap(heap, handle)
    THEN reset_callback(BinHeap_remove(heap, handle), handle)
    ELSE heap

\* Faulty variant: the handle's earlier timeout is not cancelled first.
TimeoutHandle_setTimeout_NoClear(heap, handle, delayMs, callback, t) ==
    BinHeap_insert(
        [heap EXCEPT !.node[handle].value =
                        [expiration |-> t + delayMs, callback |-> callback]],
        handle)

\* timeout_queue.h:97-99: the record is written and the node inserted; the
\* expiration is the u64 sum getTimeMs() + delayMs, which wraps for a delayMs
\* of 2^64 - k when getTimeMs() >= k.
arm(cleared, handle, delayMs, callback, t) ==
    IF cleared.failed THEN cleared
    ELSE BinHeap_insert(
             [cleared EXCEPT !.node[handle].value =
                                [expiration |-> t + delayMs,
                                 callback |-> callback]],
             handle)

\* TimeoutHandle::setTimeout, timeout_queue.h:94-100, with getTimeMs() = t
TimeoutHandle_setTimeout(heap, handle, delayMs, callback, t) ==
    IF callback = NULL THEN Fail(heap)
    ELSE arm(TimeoutHandle_clearTimeout(heap, handle), handle, delayMs, callback, t)

\* BinHeapNode::~BinHeapNode, binheap.h:69-72: assert(!in_heap)
assert_not_inHeap(cleared, handle) ==
    IF cleared.failed THEN cleared
    ELSE IF inHeap(cleared, handle) THEN Fail(cleared)
    ELSE cleared

\* TimeoutHandle::~TimeoutHandle, timeout_queue.h:76-78, and the destructor
\* of its node, binheap.h:69-72
TimeoutHandle_destroy(heap, handle) ==
    assert_not_inHeap(TimeoutHandle_clearTimeout(heap, handle), handle)

\* One invocation of a callback by processTimeouts().
Invocation(heap, node) ==
    [callback |-> heap.node[node].value.callback,
     handle |-> node,
     expiration |-> heap.node[node].value.expiration]

\* Faulty variant: a record is also fired at its expiration.
RECURSIVE ProcessLoop_Inclusive(_, _)
ProcessLoop_Inclusive(q, now_) ==
    IF q.heap.failed \/ empty(q.heap) THEN q
    ELSE LET node == top(q.heap)
         IN  IF U64Less(now_, q.heap.node[node].value.expiration) THEN q
             ELSE ProcessLoop_Inclusive(
                      [heap |-> BinHeap_remove(q.heap, node),
                       invoked |-> Append(q.invoked, Invocation(q.heap, node))],
                      now_)

\* The loop of processTimeouts, timeout_queue.h:51-57, on q = [heap, invoked]:
\* the callback is moved out of the top node, the node removed, the callback
\* invoked.
RECURSIVE ProcessLoop(_, _)
ProcessLoop(q, now_) ==
    IF q.heap.failed \/ empty(q.heap) THEN q
    ELSE LET node == top(q.heap)
         IN  IF ~U64Less(q.heap.node[node].value.expiration, now_) THEN q
             ELSE LET moved == [q.heap EXCEPT !.node[node].value.callback = NULL]
                  IN  ProcessLoop(
                          [heap |-> BinHeap_remove(moved, node),
                           invoked |-> Append(q.invoked, Invocation(q.heap, node))],
                          now_)

\* TimeoutQueue::processTimeouts, timeout_queue.h:47-58, with getTimeMs() = t
TimeoutQueue_processTimeouts(heap, t) ==
    IF empty(heap) THEN [heap |-> heap, invoked |-> <<>>]
    ELSE ProcessLoop([heap |-> heap, invoked |-> <<>>], t)

\* TimeoutQueue::nextTimeoutMs, timeout_queue.h:36-44, with getTimeMs() = t;
\* -1 stands for the failed sanity_check on an empty queue.
TimeoutQueue_nextTimeoutMs(heap, t) ==
    IF empty(heap) THEN -1
    ELSE IF ~U64Less(t, heap.node[top(heap)].value.expiration) THEN 0
    ELSE heap.node[top(heap)].value.expiration - t

TimeoutRecord0 == [expiration |-> 0, callback |-> NULL]

splitRest == <<m_buf, m_heap, sp_next_id, sp_n, sp_ticks, sp_received, sp_evicted,
               sp_aborted>>

InitTimeout ==
    /\ tq_heap = [EmptyBinHeap("TimeoutRecord", Handles) EXCEPT
                    !.node = [n \in Handles |-> NewNode(TimeoutRecord0)]]
    /\ tq_alive = {}
    /\ tq_cbs = <<>>
    /\ tq_fired = <<>>
    /\ FnIdle
    /\ RelIdle
    /\ SplitIdle
    /\ HeapIdle
    /\ PkIdle
    /\ AlIdle

\* The status a callback gets when its handle is cleared, re-armed or
\* destroyed while the callback waits in the heap.
Cancel(cbs, heap, handle, status) ==
    IF inHeap(heap, handle)
    THEN [cbs EXCEPT ![heap.node[handle].value.callback].status = status]
    ELSE cbs

\* The handles constructed so far, timeout_queue.h:74: a handle is constructed
\* when its first setTimeout() is about to be made, and takes the next number.
NextHandle ==
    {n \in Handles : n = Cardinality({tq_cbs[i].handle : i \in 1..Len(tq_cbs)}) + 1}

\* handle.setTimeout(delayMs, callback) with a new callback; delayMs is small
\* or 2^64 - 2, one of the delays whose sum with the clock can wrap.
SetTimeout ==
    /\ ~tq_heap.failed
    /\ Len(tq_cbs) < MaxArms
    /\ \E handle \in tq_alive \cup NextHandle, delayMs \in (0..MaxDelay) \cup {U64_MAX - 1} :
         LET callback == Len(tq_cbs) + 1
         IN  /\ tq_heap' = TimeoutHandle_setTimeout(tq_heap, handle, delayMs, callback, now)
             /\ tq_cbs' = Append(Cancel(tq_cbs, tq_heap, handle, "replaced"),
                                 [handle |-> handle, at |-> now, delayMs |-> delayMs,
                                  status |-> "armed"])
             /\ tq_alive' = tq_alive \cup {handle}
    /\ UNCHANGED <<now, tq_fired, splitRest, fnVars, relVars, heapVars, pkVars, alVars>>

\* handle.clearTimeout()
ClearTimeout ==
    /\ ~tq_heap.failed
    /\ \E handle \in tq_alive :
         /\ tq_heap' = TimeoutHandle_clearTimeout(tq_heap, handle)
         /\ tq_cbs' = Cancel(tq_cbs, tq_heap, handle, "cleared")
    /\ UNCHANGED <<now, tq_alive, tq_fired, splitRest, fnVars, relVars, heapVars, pkVars, alVars>>

\* the handle is destroyed
DestroyHandle ==
    /\ ~tq_heap.failed
    /\ \E handle \in tq_alive :
         /\ tq_heap' = TimeoutHandle_destroy(tq_heap, handle)
         /\ tq_cbs' = Cancel(tq_cbs, tq_heap, handle, "destroyed")
         /\ tq_alive' = tq_alive \ {handle}
    /\ UNCHANGED <<now, tq_fired, splitRest, fnVars, relVars, heapVars, pkVars, alVars>>

\* The invocations of one processTimeouts() call, each with the clock.
Stamped(invoked, t) ==
    [i \in 1..Len(invoked) |->
        [callback |-> invoked[i].callback,
         handle |-> invoked[i].handle,
         expiration |-> invoked[i].expiration,
         at |-> t]]

\* queue.processTimeouts(); each invocation is logged with the clock
TqProcessTimeouts ==
    /\ ~tq_heap.failed
    /\ \E q \in {TimeoutQueue_processTimeouts(tq_heap, now)} :
          /\ tq_heap' = q.heap
          /\ tq_fired' = tq_fired \o Stamped(q.invoked, now)
    /\ UNCHANGED <<now, tq_alive, tq_cbs, splitRest, fnVars, relVars, heapVars, pkVars, alVars>>

\* porting::getTimeMs() moves on
TqTick ==
    /\ ~tq_heap.failed
    /\ now < MaxClock
    /\ now' = now + 1
    /\ UNCHANGED <<tqVars, splitRest, fnVars, relVars, heapVars, pkVars, alVars>>

NextTimeout ==
    SetTimeout \/ ClearTimeout \/ DestroyHandle \/ TqProcessTimeouts \/ TqTick

SpecTimeout == InitTimeout /\ [][NextTimeout]_vars

(* SpecCallback: SpecTimeout with callbacks that act on the queue they are   *)
(* invoked from.  A pass of processTimeouts() is                             *)
(*   q = [heap, alive, cbs, invoked, clock, pass]                            *)
(* where clock is what getTimeMs() returns inside the callbacks; it may move *)
(* on during the pass, while the loop compares with the value read at        *)
(* timeout_queue.h:50.  A callback does nothing or makes one call on a live  *)
(* handle, its own included; a setTimeout() it makes has the least or the    *)
(* greatest delay.                                                           *)

CallbackActs(q) ==
    {[kind |-> k, handle |-> h, delayMs |-> d, dt |-> dt] :
        k \in {"none", "clear", "destroy", "set"},
        h \in q.alive,
        d \in {0, U64_MAX},
        dt \in {x \in 0..1 : q.clock + x <= MaxClock}}

\* The acts that differ in what they do: only setTimeout() has a delay, and
\* callbacks arm timeouts until there are one more than MaxArms.
CallbackChoices(q) ==
    {a \in CallbackActs(q) :
        /\ a.kind # "set" => a.delayMs = 0
        /\ a.kind = "set" => Len(q.cbs) <= MaxArms
        /\ a.kind = "none" => \A b \in CallbackActs(q) : a.handle <= b.handle}

\* callback(), timeout_queue.h:55, for a callback doing act at clock t.
CallbackRuns(q, invoker, act, t) ==
    IF q.heap.failed THEN q
    ELSE IF act.kind = "set"
    THEN [q EXCEPT
            !.clock = t,
            !.heap = TimeoutHandle_setTimeout(@, act.handle, act.delayMs,
                                              Len(q.cbs) + 1, t),
            !.cbs = Append(Cancel(@, q.heap, act.handle, "replaced"),
                           [handle |-> act.handle, at |-> t,
                            delayMs |-> act.delayMs, status |-> "armed",
                            pass |-> q.pass, by |-> invoker])]
    ELSE IF act.kind = "clear"
    THEN [q EXCEPT
            !.clock = t,
            !.heap = TimeoutHandle_clearTimeout(@, act.handle),
            !.cbs = Cancel(@, q.heap, act.handle, "cleared")]
    ELSE IF act.kind = "destroy"
    THEN [q EXCEPT
            !.clock = t,
            !.heap = TimeoutHandle_destroy(@, act.handle),
            !.cbs = Cancel(@, q.heap, act.handle, "destroyed"),
            !.alive = @ \ {act.handle}]
    ELSE [q EXCEPT !.clock = t]

\* timeout_queue.h:52-54: the callback is moved out of the top node and the
\* node removed.
TakeTop(q) ==
    [q EXCEPT
        !.heap = BinHeap_remove([@ EXCEPT !.node[top(q.heap)].value.callback = NULL],
                                top(q.heap))]

\* The invocation at timeout_queue.h:55 of the callback taken from node, logged
\* with what isActive() of its handle reports at that point.
Invoked(q, node, callback, expiration) ==
    [q EXCEPT
        !.invoked = Append(@, [callback |-> callback,
                               handle |-> node,
                               expiration |-> expiration,
                               active |-> TimeoutHandle_isActive(q.heap, node),
                               pass |-> q.pass])]

\* m_heap.remove(node) made after the callback has run.
RemoveLate(q, node) ==
    IF q.heap.failed THEN q
    ELSE [q EXCEPT !.heap = BinHeap_remove(@, node)]

\* Faulty variant: the callback is invoked while its node is still in the
\* heap, and the node removed afterwards.
RECURSIVE ProcessLoopCb_CallFirst(_, _)
ProcessLoopCb_CallFirst(q, now_) ==
    IF q.heap.failed \/ empty(q.heap) THEN {q}
    ELSE IF ~U64Less(q.heap.node[top(q.heap)].value.expiration, now_) THEN {q}
    ELSE UNION {
        ProcessLoopCb_CallFirst(
            RemoveLate(
                CallbackRuns(
                    Invoked(q, top(q.heap),
                            q.heap.node[top(q.heap)].value.callback,
                            q.heap.node[top(q.heap)].value.expiration),
                    q.heap.node[top(q.heap)].value.callback,
                    act, q.clock + act.dt),
                top(q.heap)),
            now_)
        : act \in CallbackChoices(q) }

\* Faulty variant: the loop also takes a record at its expiration.
RECURSIVE ProcessLoopCb_Inclusive(_, _)
ProcessLoopCb_Inclusive(q, now_) ==
    IF q.heap.failed \/ empty(q.heap) THEN {q}
    ELSE IF U64Less(now_, q.heap.node[top(q.heap)].value.expiration) THEN {q}
    ELSE UNION {
        ProcessLoopCb_Inclusive(
            CallbackRuns(
                Invoked(TakeTop(q), top(q.heap),
                        q.heap.node[top(q.heap)].value.callback,
                        q.heap.node[top(q.heap)].value.expiration),
                q.heap.node[top(q.heap)].value.callback,
                act, q.clock + act.dt),
            now_)
        : act \in CallbackChoices(q) }

\* The loop of processTimeouts, timeout_queue.h:51-57, with callbacks that
\* act: the set of states the pass can end in.
RECURSIVE ProcessLoopCb(_, _)
ProcessLoopCb(q, now_) ==
    IF q.heap.failed \/ empty(q.heap) THEN {q}
    ELSE IF ~U64Less(q.heap.node[top(q.heap)].value.expiration, now_) THEN {q}
    ELSE UNION {
        ProcessLoopCb(
            CallbackRuns(
                Invoked(TakeTop(q), top(q.heap),
                        q.heap.node[top(q.heap)].value.callback,
                        q.heap.node[top(q.heap)].value.expiration),
                q.heap.node[top(q.heap)].value.callback,
                act, q.clock + act.dt),
            now_)
        : act \in CallbackChoices(q) }

\* TimeoutQueue::processTimeouts, timeout_queue.h:47-58, on such a pass
TimeoutQueue_processTimeouts_acting(q) ==
    IF empty(q.heap) THEN {q}
    ELSE ProcessLoopCb(q, q.clock)

\* The invocations of a pass, each with the clock the pass read.
StampedPass(invoked, t) ==
    [i \in 1..Len(invoked) |->
        [callback |-> invoked[i].callback,
         handle |-> invoked[i].handle,
         expiration |-> invoked[i].expiration,
         active |-> invoked[i].active,
         pass |-> invoked[i].pass,
         at |-> t]]

\* queue.processTimeouts() with acting callbacks; passes are numbered from 1
TqProcessTimeoutsActing ==
    /\ ~tq_heap.failed
    /\ \E q \in TimeoutQueue_processTimeouts_acting(
                  [heap |-> tq_heap, alive |-> tq_alive, cbs |-> tq_cbs,
                   invoked |-> <<>>, clock |-> now, pass |-> Len(tq_fired) + 1]) :
          /\ tq_heap' = q.heap
          /\ tq_alive' = q.alive
          /\ tq_cbs' = q.cbs
          /\ tq_fired' = tq_fired \o StampedPass(q.invoked, now)
          /\ now' = q.clock
    /\ UNCHANGED <<splitRest, fnVars, relVars, heapVars, pkVars, alVars>>

\* Timeouts are armed and the clock moves on between the passes; the handles
\* are cleared and destroyed by the callbacks.
NextCallback == SetTimeout \/ TqProcessTimeoutsActing \/ TqTick

SpecCallback == InitTimeout /\ [][NextCallback]_vars

----------------------------------------------------------------------------
(* Claims on the timeout queue *)

\* The clock value from which callback i is due: t0 + d of its setTimeout(),
\* as a u64.
ExpiryOf(i) == tq_cbs[i].at + tq_cbs[i].delayMs

\* The nodes resident in the queue's heap.
Waiting == {n \in DOMAIN tq_heap.node : tq_heap.node[n].in_heap}

\* The callback held by a resident node.
CallbackOf(n) == tq_heap.node[n].value.callback

\* The callbacks a processTimeouts() call made now would invoke.
InvokedNow ==
    LET q == TimeoutQueue_processTimeouts(tq_heap, now)
    IN  {q.invoked[j].callback : j \in 1..Len(q.invoked)}

\* How often callback i has been invoked.
TimesFired(i) == Cardinality({j \in 1..Len(tq_fired) : tq_fired[j].callback = i})

\* C14: after a TimeoutHandle is destroyed or clearTimeout() is called on it,
\* the callback it held is never invoked by a later processTimeouts() call, and
\* its record is no longer in the queue's heap.
C14_ClearedNeverFires ==
    /\ ~tq_heap.failed
    /\ \A j \in 1..Len(tq_fired) :
          /\ tq_fired[j].callback \in 1..Len(tq_cbs)
          /\ tq_cbs[tq_fired[j].callback].status \notin {"cleared", "destroyed"}
    /\ \A i \in 1..Len(tq_cbs) :
          tq_cbs[i].status \in {"cleared", "destroyed"} =>
              /\ \A n \in Waiting : CallbackOf(n) # i
              /\ i \notin InvokedNow
              /\ (\A k \in (i + 1)..Len(tq_cbs) : tq_cbs[k].handle # tq_cbs[i].handle)
                    => tq_cbs[i].handle \notin Waiting
    /\ \A n \in Waiting : n \in tq_alive

\* A timeout was cleared or its handle destroyed, and afterwards a
\* processTimeouts() call made past the cancelled timeout's expiration fired
\* another handle's callback.
C14_Witness ==
    \E i \in 1..Len(tq_cbs), j \in 1..Len(tq_fired) :
        /\ tq_cbs[i].status \in {"cleared", "destroyed"}
        /\ U64Less(ExpiryOf(i), tq_fired[j].at)
        /\ tq_fired[j].handle # tq_cbs[i].handle

\* C15: a timeout armed with setTimeout(d, cb) at clock t0 and not cleared
\* fires exactly once, on the first processTimeouts() call made when the clock
\* is >= t0 + d, and never on a call made when the clock is < t0 + d: a call
\* made now invokes exactly the waiting callbacks with t0 + d <= now.
C15_FiresFromExpiration ==
    /\ \A i \in 1..Len(tq_cbs) : TimesFired(i) <= 1
    /\ \A j \in 1..Len(tq_fired) : ~U64Less(tq_fired[j].at, ExpiryOf(tq_fired[j].callback))
    /\ \A n \in Waiting :
          (~U64Less(now, ExpiryOf(CallbackOf(n)))) <=> (CallbackOf(n) \in InvokedNow)

\* C15, as the code has it: the timeout fires exactly once, on the first
\* processTimeouts() call made when the clock is > t0 + d, and on no call made
\* when the clock is <= t0 + d; the record's expiration is the u64 sum t0 + d.
C15_FiresPastExpiration ==
    /\ \A i \in 1..Len(tq_cbs) : TimesFired(i) <= 1
    /\ \A j \in 1..Len(tq_fired) :
          /\ U64Less(ExpiryOf(tq_fired[j].callback), tq_fired[j].at)
          /\ tq_fired[j].expiration = ExpiryOf(tq_fired[j].callback)
    /\ \A n \in Waiting :
          /\ tq_heap.node[n].value.expiration = ExpiryOf(CallbackOf(n))
          /\ U64Less(ExpiryOf(CallbackOf(n)), now) <=> (CallbackOf(n) \in InvokedNow)

\* A timeout armed at clock 0 with delay 1 was fired by a processTimeouts()
\* call at clock 2, and a second timeout waits with its expiration equal to
\* the clock.
C15_Witness ==
    /\ \E j \in 1..Len(tq_fired) :
          /\ tq_cbs[tq_fired[j].callback].at = 0
          /\ tq_cbs[tq_fired[j].callback].delayMs = 1
          /\ tq_fired[j].at = 2
    /\ \E n \in Waiting : ExpiryOf(CallbackOf(n)) = now

\* The last callback given to a handle.
LatestOf(handle) ==
    Greatest({i \in 1..Len(tq_cbs) : tq_cbs[i].handle = handle})

\* C16: setTimeout on a handle that is already active replaces the earlier
\* entry: the queue holds at most one record per handle, the handle's latest,
\* the replaced callback never fires, and the latest callback fires at most
\* once, with the expiration of the latest setTimeout.
C16_Replaces ==
    /\ ~tq_heap.failed
    /\ tq_heap.m_size = Cardinality(Waiting)
    /\ \A n \in Waiting :
          /\ CallbackOf(n) = LatestOf(n)
          /\ tq_cbs[CallbackOf(n)].status = "armed"
          /\ tq_heap.node[n].value.expiration = ExpiryOf(CallbackOf(n))
    /\ \A i \in 1..Len(tq_cbs) :
          /\ TimesFired(i) <= 1
          /\ tq_cbs[i].status = "replaced" => (TimesFired(i) = 0 /\ i \notin InvokedNow)
    /\ \A j \in 1..Len(tq_fired) :
          /\ tq_fired[j].callback \in 1..Len(tq_cbs)
          /\ tq_fired[j].expiration = ExpiryOf(tq_fired[j].callback)

\* A handle armed with expiration 0 was armed again with expiration 1 while
\* active, and a processTimeouts() call at clock 2 fired the second callback
\* only.
C16_Witness ==
    /\ Len(tq_cbs) = 2
    /\ tq_cbs[1].status = "replaced"
    /\ tq_cbs[2].handle = tq_cbs[1].handle
    /\ ExpiryOf(1) = 0
    /\ ExpiryOf(2) = 1
    /\ Len(tq_fired) = 1
    /\ tq_fired[1].callback = 2
    /\ tq_fired[1].at = 2

\* The u64 sum getTimeMs() + delayMs of callback i's setTimeout() wrapped:
\* the delay is one of those close to 2^64 and the expiration is small again.
Wrapped(i) == tq_cbs[i].delayMs < 0 /\ ExpiryOf(i) >= 0

\* C17: timeout callbacks fire in non-decreasing order of expiration: with a
\* non-decreasing clock no callback is invoked after a callback whose record
\* had a strictly larger expiration.
C17_FiredInExpirationOrder ==
    \A a, b \in 1..Len(tq_fired) :
        a < b => ~U64Less(tq_fired[b].expiration, tq_fired[a].expiration)

\* C17, as far as it holds: a callback is invoked after a callback whose
\* record had a strictly larger expiration only if the sum of the clock and
\* the delay of its own setTimeout() wrapped, and then it was armed after
\* that callback had been invoked; among timeouts armed without a wrap the
\* order of invocation is the order of expiration.
C17_InOrderUnlessWrapped ==
    \A a, b \in 1..Len(tq_fired) :
        (a < b /\ U64Less(tq_fired[b].expiration, tq_fired[a].expiration)) =>
            /\ Wrapped(tq_fired[b].callback)
            /\ tq_cbs[tq_fired[b].callback].at >= tq_fired[a].at
            /\ tq_fired[b].callback > tq_fired[a].callback

\* A timeout of expiration 1 was fired at clock 2; a timeout armed then with
\* delay 2^64 - 2 got expiration 0 and was fired at clock 2 as well, after
\* the callback of the larger expiration.
C17_Witness ==
    /\ Len(tq_fired) = 2
    /\ tq_fired[1].expiration = 1
    /\ tq_fired[1].at = 2
    /\ tq_cbs[tq_fired[2].callback].at = 2
    /\ tq_cbs[tq_fired[2].callback].delayMs = U64_MAX - 1
    /\ tq_fired[2].expiration = 0
    /\ tq_fired[2].at = 2

----------------------------------------------------------------------------
(* Claims on the BinHeap *)

\* The nodes whose back-pointer is the heap.
Resident(h) == {n \in DOMAIN h.node : h.node[n].in_heap}

\* The slots, numbered as in binheap.h:209-213, of the nodes reachable from
\* base at slot index, looking at most levels deep.
RECURSIVE OccupiedSlots(_, _, _, _)
OccupiedSlots(h, base, index, levels) ==
    IF base = NULL \/ levels = 0 THEN {}
    ELSE {index}
         \cup OccupiedSlots(h, h.node[base].left, 2 * index, levels - 1)
         \cup OccupiedSlots(h, h.node[base].right, 2 * index + 1, levels - 1)

\* The nodes reachable from base.
RECURSIVE Reachable(_, _, _)
Reachable(h, base, levels) ==
    IF base = NULL \/ levels = 0 THEN {}
    ELSE {base}
         \cup Reachable(h, h.node[base].left, levels - 1)
         \cup Reachable(h, h.node[base].right, levels - 1)

Levels(h) == Cardinality(DOMAIN h.node) + 1

\* C18: after every operation of any sequence of insert() and remove() calls,
\* remove of any resident node, the validation predicate holds: no child's
\* value is less than its parent's, every child's parent pointer is the node
\* that lists it, the reachable nodes are as many as size() says and are the
\* nodes whose back-pointer is the heap, and the tree is complete: left count
\* >= right count at every node and the occupied slots are exactly 1..size.
C18_AlwaysValid ==
    /\ ~real.failed
    /\ BinHeap_validate(real)
    /\ Reachable(real, real.m_root, Levels(real)) = Resident(real)
    /\ Cardinality(Resident(real)) = size(real)
    /\ OccupiedSlots(real, real.m_root, 1, Levels(real)) = 1..size(real)
    /\ real.m_root # NULL => real.node[real.m_root].parent = NULL

\* A node unrelated to the terminal node was removed from a heap of six nodes
\* holding equal values.
C18_Witness ==
    /\ bh_last.op = "remove"
    /\ bh_last.rel = "unrelated"
    /\ size(real) = 5
    /\ \E i, j \in 1..Len(dummy) : i # j /\ dummy[i].value = dummy[j].value

\* The least element of the reference list under the heap's comparator.
LeastOfDummy ==
    IF real.is_less_than = "less" THEN dummy[1].value ELSE dummy[Len(dummy)].value

\* C19: the BinHeap is observationally equivalent to a sorted list of the same
\* elements: after any sequence of insert() and remove() of resident nodes,
\* size() and empty() equal those of the reference list and top()->value is
\* the least element under the heap's comparator, the minimum for std::less
\* and the maximum for std::greater, equal values allowed.
C19_MatchesSortedList ==
    /\ ~real.failed
    /\ size(real) = Len(dummy)
    /\ empty(real) <=> (dummy = <<>>)
    /\ \A i \in 1..Len(dummy) :
          /\ inHeap(real, dummy[i].partner)
          /\ real.node[dummy[i].partner].value = dummy[i].value
          /\ i < Len(dummy) => dummy[i].value <= dummy[i + 1].value
          /\ ~is_less_than(real, dummy[i].value, LeastOfDummy)
    /\ Resident(real) = Partners
    /\ size(real) > 0 =>
          /\ top(real) # NULL
          /\ real.node[top(real)].value = LeastOfDummy

\* A max-heap holding equal values, after its top was removed.
C19_Witness ==
    /\ real.is_less_than = "greater"
    /\ bh_last.op = "remove"
    /\ bh_last.rel = "top"
    /\ size(real) >= 4
    /\ \E i, j \in 1..Len(dummy) : i # j /\ dummy[i].value = dummy[j].value
    /\ dummy[1].value # dummy[Len(dummy)].value

\* C20: remove(node) of any resident node, be it the top, the terminal node,
\* its sibling, parent or child, or unrelated to it, makes exactly that node
\* not resident, decrements size() by one, and leaves every other resident
\* node resident with its value unchanged.
C20_RemoveFrame ==
    \A node \in Resident(real) :
        LET after == BinHeap_remove(real, node)
        IN  /\ ~after.failed
            /\ ~inHeap(after, node)
            /\ size(after) = size(real) - 1
            /\ \A other \in DOMAIN real.node \ {node} :
                  /\ inHeap(after, other) <=> inHeap(real, other)
                  /\ after.node[other].value = real.node[other].value

\* A heap of five nodes, left by a remove(), in which the top, the terminal
\* node, its sibling, its parent and an unrelated node are all resident.
C20_Witness ==
    /\ bh_last.op = "remove"
    /\ size(real) = 5
    /\ {RelationToTerminal(real, n) : n \in Resident(real)} =
          {"top", "terminal", "sibling", "parent", "unrelated"}

----------------------------------------------------------------------------
(* top() of an empty heap, binheap.h:184-189.                               *)
(***************************************************************************)

\* clear() was called on a heap that held nodes.
ClearedNonEmpty == ~InLoop /\ bh_last.size > 0

\* C21: whenever the BinHeap is empty, size() = 0, top() returns null: for a
\* fresh heap, after the last node was removed with remove(), and after
\* clear().
C21_EmptyTopNull ==
    ~real.failed /\ size(real) = 0 => top(real) = NULL

\* C21, as far as it holds: top() of an empty heap is null exactly if the
\* heap was not emptied by clear(); after clear() of a heap that held nodes
\* top() still returns the former root.
C21_EmptyTopNullUnlessCleared ==
    ~real.failed /\ size(real) = 0 => (top(real) = NULL <=> ~ClearedNonEmpty)

\* clear() has just emptied a heap of at least three nodes.
C21_Witness ==
    /\ bh_last.op = "clear"
    /\ bh_last.size >= 3
    /\ size(real) = 0
    /\ Resident(real) = {}

----------------------------------------------------------------------------
(* ReceivedPacket::parse, packet.cpp:9-99, over BinReader,                  *)
(* reliable.h:84-136.                                                       *)
(*                                                                         *)
(* A datagram is the sequence of its bytes; byte i of the C++ buffer is     *)
(* element i + 1.  The packet record holds the fields of ReceivedPacket,    *)
(* the members of the BinReader parse() reads with (m_size, m_pos), the     *)
(* ParseError thrown, if any, and touched: one past the highest index of    *)
(* data[] a read has looked at.  The tracking tag made by genHexUUID is     *)
(* left out.                                                                *)
(***************************************************************************)

\* networkprotocol.h is not part of the sources at hand; the value is the
\* protocol magic 0x4f457403.
PROTOCOL_ID == 1329951747

CHANNEL_COUNT == 3

PACKET_TYPE_CONTROL == 0
PACKET_TYPE_ORIGINAL == 1
PACKET_TYPE_SPLIT == 2
PACKET_TYPE_RELIABLE == 3
PACKET_TYPE_MAX == 4

CONTROLTYPE_ACK == 0
CONTROLTYPE_SET_PEER_ID == 1
CONTROLTYPE_PING == 2
CONTROLTYPE_DISCO == 3

\* ReceivedPacket::make, packet.h:173-176: a zero-initialized packet holding
\* the datagram, and BinReader r(data, data_size), packet.cpp:11.
BinReader(data) ==
    [parsed |-> TRUE, error |-> "none",
     m_size |-> Len(data), m_pos |-> 0, touched |-> 0, out |-> 0,
     protocol_id |-> 0, peer_id |-> 0, channelnum |-> 0, raw_type |-> 0,
     type |-> "RPT_INVALID", is_reliable |-> FALSE, reliable_seqnum |-> 0,
     ack_seqnum |-> 0, new_peer_id |-> 0,
     split_seqnum |-> 0, split_chunk_count |-> 0, split_chunk_num |-> 0,
     cannot_be_empty |-> FALSE, contents |-> 0, contents_size |-> 0]

\* throw ParseError(msg)
Throw(ps, msg) == [ps EXCEPT !.error = msg]

\* data[i]; the buffer past data_size holds the zeros make() left there.
ByteAt(data, i) == IF i < Len(data) THEN data[i + 1] ELSE 0

\* ::readU8, ::readU16, ::readU32 in network order: the n bytes from at.
RECURSIVE BigEndian(_, _, _)
BigEndian(data, at, n) ==
    IF n = 0 THEN 0
    ELSE (BigEndian(data, at, n - 1) * 256) + ByteAt(data, at + n - 1)

\* Faulty variant: the reader does not check the length.
BinReader_read_Unchecked(data, ps, n) ==
    [ps EXCEPT !.m_pos = @ + n,
               !.out = BigEndian(data, ps.m_pos, n),
               !.touched = Max(@, ps.m_pos + n)]

\* BinReader::_read, reliable.h:127-135, and the readU8/readU16/readU32 that
\* decodes the n bytes at the cursor it returns, reliable.h:102-104.
BinReader_read(data, ps, n) ==
    IF ps.m_pos + n > ps.m_size
    THEN Throw(ps, "BinReader: Unexpected EOF")
    ELSE [ps EXCEPT !.m_pos = @ + n,
                    !.out = BigEndian(data, ps.m_pos, n),
                    !.touched = Max(@, ps.m_pos + n)]

\* The value just read goes to a field of the packet.
StoreOut(ps, field) ==
    IF ps.error # "none" THEN ps ELSE [ps EXCEPT ![field] = ps.out]

\* r >> field, for a field of n bytes, reliable.h:112-114; nothing is read
\* once an exception is on its way.
ReadField(data, ps, field, n) ==
    IF ps.error # "none" THEN ps
    ELSE StoreOut(BinReader_read(data, ps, n), field)

\* packet.cpp:17-18
check_protocol_id(ps) ==
    IF ps.error # "none" THEN ps
    ELSE IF ps.protocol_id # PROTOCOL_ID THEN Throw(ps, "protocol_id")
    ELSE ps

\* Faulty variant: channel CHANNEL_COUNT is let through.
check_channelnum_OffByOne(ps) ==
    IF ps.error # "none" THEN ps
    ELSE IF ps.channelnum > CHANNEL_COUNT THEN Throw(ps, "Invalid channel")
    ELSE ps

\* packet.cpp:21-22
check_channelnum(ps) ==
    IF ps.error # "none" THEN ps
    ELSE IF ps.channelnum >= CHANNEL_COUNT THEN Throw(ps, "Invalid channel")
    ELSE ps

\* packet.cpp:26-27
check_raw_type(ps) ==
    IF ps.error # "none" THEN ps
    ELSE IF ps.raw_type >= PACKET_TYPE_MAX THEN Throw(ps, "Got invalid raw type")
    ELSE ps

\* Faulty variant: a second reliable header is read like the first.
parse_reliable_Nested(data, ps) ==
    IF ps.error # "none" \/ ps.raw_type # PACKET_TYPE_RELIABLE THEN ps
    ELSE LET inner == ReadField(data,
                          ReadField(data, [ps EXCEPT !.is_reliable = TRUE],
                                    "reliable_seqnum", 2),
                          "raw_type", 1)
         IN  IF inner.error # "none" \/ inner.raw_type # PACKET_TYPE_RELIABLE
             THEN inner
             ELSE ReadField(data, ReadField(data, inner, "reliable_seqnum", 2),
                            "raw_type", 1)

\* packet.cpp:29-34: the reliable header and the type of the packet in it
parse_reliable(data, ps) ==
    IF ps.error # "none" \/ ps.raw_type # PACKET_TYPE_RELIABLE THEN ps
    ELSE ReadField(data,
                   ReadField(data, [ps EXCEPT !.is_reliable = TRUE],
                             "reliable_seqnum", 2),
                   "raw_type", 1)

\* packet.cpp:42-67: the switch on control_type, held in out
switch_control_type(data, ps) ==
    IF ps.error # "none" THEN ps
    ELSE IF ps.out = CONTROLTYPE_ACK
    THEN ReadField(data, [ps EXCEPT !.type = "RPT_ACK"], "ack_seqnum", 2)
    ELSE IF ps.out = CONTROLTYPE_SET_PEER_ID
    THEN ReadField(data, [ps EXCEPT !.type = "RPT_SET_PEER_ID"], "new_peer_id", 2)
    ELSE IF ps.out = CONTROLTYPE_PING THEN [ps EXCEPT !.type = "RPT_PING"]
    ELSE IF ps.out = CONTROLTYPE_DISCO THEN [ps EXCEPT !.type = "RPT_DISCO"]
    ELSE Throw(ps, "Invalid control_type")

\* packet.cpp:82-84
check_chunk_num(ps) ==
    IF ps.error # "none" THEN ps
    ELSE IF ps.split_chunk_num >= ps.split_chunk_count
    THEN Throw(ps, "chunk_num >= chunksize")
    ELSE [ps EXCEPT !.cannot_be_empty = TRUE]

\* packet.cpp:36-93: the switch on raw_type
switch_raw_type(data, ps) ==
    IF ps.error # "none" THEN ps
    ELSE IF ps.raw_type = PACKET_TYPE_CONTROL
    THEN switch_control_type(data, BinReader_read(data, ps, 1))
    ELSE IF ps.raw_type = PACKET_TYPE_ORIGINAL
    THEN [ps EXCEPT !.type = "RPT_ORIGINAL", !.cannot_be_empty = TRUE]
    ELSE IF ps.raw_type = PACKET_TYPE_SPLIT
    THEN check_chunk_num(
             ReadField(data,
                 ReadField(data,
                     ReadField(data, [ps EXCEPT !.type = "RPT_SPLIT"],
                               "split_seqnum", 2),
                     "split_chunk_count", 2),
                 "split_chunk_num", 2))
    ELSE IF ps.raw_type = PACKET_TYPE_RELIABLE
    THEN Throw(ps, "Found nested reliable packets")
    ELSE Throw(ps, "Invalid packet type")

\* packet.cpp:94-98
parse_contents(ps) ==
    IF ps.error # "none" THEN ps
    ELSE IF ps.type = "RPT_INVALID" THEN Throw(ps, "assert")
    ELSE IF ps.cannot_be_empty /\ ps.m_size - ps.m_pos = 0
    THEN Throw([ps EXCEPT !.contents = ps.m_pos,
                          !.contents_size = ps.m_size - ps.m_pos],
               "Empty contents")
    ELSE [ps EXCEPT !.contents = ps.m_pos, !.contents_size = ps.m_size - ps.m_pos]

\* ReceivedPacket::parse, packet.cpp:9-99, of a packet holding data
parse(data) ==
    parse_contents(
        switch_raw_type(data,
            parse_reliable(data,
                check_raw_type(
                    ReadField(data,
                        check_channelnum(
                            ReadField(data,
                                ReadField(data,
                                    check_protocol_id(
                                        ReadField(data, BinReader(data),
                                                  "protocol_id", 4)),
                                    "peer_id", 2),
                                "channelnum", 1)),
                        "raw_type", 1)))))

\* The datagrams parse() is given.  Type, channel and control type bytes,
\* and the high byte of a 16-bit field, range over TypeBytes; the bytes that
\* follow over LowBytes, so that a 16-bit field takes values on both sides
\* of 256.
TypeBytes == {0, 1, 2, 3, 4, 255}
LowBytes == {0, 1}

\* The magic, the magic with its last, and with its first byte changed, and
\* zeros.
ProtocolBytes == {<<79, 69, 116, 3>>, <<79, 69, 116, 4>>, <<78, 69, 116, 3>>,
                  <<0, 0, 0, 0>>}

\* No reliable header, or one with seqnum 65500.
ReliableHeaders == {<<>>, <<PACKET_TYPE_RELIABLE, 255, 220>>}

\* What follows the packet type: up to MaxTail bytes.
Tails ==
    {<<>>} \cup
    {<<c>> \o rest : c \in TypeBytes,
                     rest \in UNION {[1..k -> LowBytes] : k \in 0..(MaxTail - 1)}}

\* A datagram cut off after any number of bytes.
Prefixes(data) == {SubSeq(data, 1, n) : n \in 0..Len(data)}

\* A datagram arrived: a well-formed base header and any packet after it, or
\* any base header before an ORIGINAL packet, cut off anywhere.
InitParse ==
    /\ \/ \E channel \in {0, CHANNEL_COUNT - 1}, rel \in ReliableHeaders,
             t \in TypeBytes, tail \in Tails :
            pk_data = <<79, 69, 116, 3, 0, 1, channel>> \o rel \o <<t>> \o tail
       \/ \E protocol \in ProtocolBytes, peer \in {<<0, 1>>, <<255, 255>>}, channel \in TypeBytes,
             rel \in ReliableHeaders :
            pk_data \in Prefixes(protocol \o peer \o <<channel>> \o rel
                                   \o <<PACKET_TYPE_ORIGINAL, 7>>)
    /\ pk = [parsed |-> FALSE]
    /\ FnIdle
    /\ RelIdle
    /\ SplitIdle
    /\ HeapIdle
    /\ TqIdle
    /\ AlIdle

\* rpkt->parse() on the datagram
Parse ==
    /\ ~pk.parsed
    /\ pk' = parse(pk_data)
    /\ UNCHANGED <<pk_data, fnVars, relVars, splitVars, heapVars, tqVars, alVars>>

NextParse == Parse

SpecParse == InitParse /\ [][NextParse]_vars

----------------------------------------------------------------------------
(* The wire grammar, stated on the bytes.                                   *)
(***************************************************************************)

\* The 16-bit big-endian number at elements at and at + 1 of p.
U16At(p, at) == (p[at] * 256) + p[at + 1]

\* A CONTROL, ORIGINAL or SPLIT packet with its fields and, where one is
\* required, at least one payload byte.
PacketMatches(p) ==
    /\ p # <<>>
    /\ \/ /\ p[1] = PACKET_TYPE_CONTROL
          /\ Len(p) >= 2
          /\ \/ p[2] \in {CONTROLTYPE_ACK, CONTROLTYPE_SET_PEER_ID} /\ Len(p) >= 4
             \/ p[2] \in {CONTROLTYPE_PING, CONTROLTYPE_DISCO}
       \/ /\ p[1] = PACKET_TYPE_ORIGINAL
          /\ Len(p) >= 2
       \/ /\ p[1] = PACKET_TYPE_SPLIT
          /\ Len(p) >= 8
          /\ U16At(p, 6) < U16At(p, 4)

\* The base header is well formed.
BaseMatches(data) ==
    /\ Len(data) >= 7
    /\ (U16At(data, 1) * 65536) + U16At(data, 3) = PROTOCOL_ID
    /\ data[7] < CHANNEL_COUNT

\* The base header, an optional single reliable header, and a packet.
MatchesGrammar(data) ==
    /\ BaseMatches(data)
    /\ Len(data) >= 8
    /\ \/ PacketMatches(SubSeq(data, 8, Len(data)))
       \/ /\ data[8] = PACKET_TYPE_RELIABLE
          /\ Len(data) >= 11
          /\ PacketMatches(SubSeq(data, 11, Len(data)))

\* C22: parse() succeeds exactly on the datagrams that match the grammar:
\* protocol_id equal to the constant, channel < CHANNEL_COUNT, an optional
\* single RELIABLE header with a u16 seqnum, then CONTROL with control_type
\* ACK, SET_PEER_ID, PING or DISCO and its fields, or ORIGINAL with a
\* non-empty payload, or SPLIT with chunk_num < chunk_count and a non-empty
\* payload; every other datagram raises ParseError.  On success is_reliable
\* tells whether the reliable header was there and contents is what follows
\* the fields.
C22_ParsesExactlyGrammar ==
    pk.parsed =>
        /\ pk.error = "none" <=> MatchesGrammar(pk_data)
        /\ pk.error = "none" =>
              /\ pk.is_reliable <=> pk_data[8] = PACKET_TYPE_RELIABLE
              /\ pk.type # "RPT_INVALID"
              /\ pk.contents + pk.contents_size = Len(pk_data)
              /\ pk.type \in {"RPT_ORIGINAL", "RPT_SPLIT"} => pk.contents_size > 0

\* A SPLIT packet in a reliable header was parsed, chunk 1 of 256.
C22_Witness ==
    /\ pk.parsed
    /\ pk.error = "none"
    /\ pk.is_reliable
    /\ pk.type = "RPT_SPLIT"
    /\ pk.split_chunk_count = 256
    /\ pk.split_chunk_num = 1
    /\ pk.reliable_seqnum = 65500

\* The outer packet type is RELIABLE and so is the inner one.
NestedReliable(data) ==
    /\ Len(data) >= 11
    /\ data[8] = PACKET_TYPE_RELIABLE
    /\ data[11] = PACKET_TYPE_RELIABLE

\* C23: a datagram whose outer packet type is RELIABLE and whose inner
\* packet type is again RELIABLE is rejected by parse() with a ParseError,
\* the one for nested reliability if the base header is well formed; no
\* packet parse() accepts has a reliable header inside its reliable header.
C23_NestedReliableRejected ==
    pk.parsed =>
        /\ NestedReliable(pk_data) =>
              /\ pk.error # "none"
              /\ BaseMatches(pk_data) => pk.error = "Found nested reliable packets"
        /\ pk.error = "Found nested reliable packets" => NestedReliable(pk_data)

\* Two reliable headers before an ORIGINAL packet with a payload: rejected.
C23_Witness ==
    /\ pk.parsed
    /\ pk.error = "Found nested reliable packets"
    /\ Len(pk_data) >= 16
    /\ pk_data[14] = PACKET_TYPE_ORIGINAL

\* The least length of a datagram with the header fields of the accepted
\* packet ps.
RequiredLength(ps) == ps.contents + (IF ps.cannot_be_empty THEN 1 ELSE 0)

\* C24: for every datagram length from 0 up to the length the grammar
\* requires minus one, a datagram truncated inside any header field, parse()
\* raises ParseError, the unexpected EOF one if a header field is cut, and
\* no read touches a byte at an index >= data_size; the position of the
\* BinReader never exceeds its size.
C24_TruncatedRejected ==
    pk.parsed =>
        /\ pk.m_pos <= pk.m_size
        /\ pk.touched <= Len(pk_data)
        /\ pk.error = "none" =>
              \A n \in 0..(RequiredLength(pk) - 1) :
                  LET cut == parse(SubSeq(pk_data, 1, n))
                  IN  /\ cut.error # "none"
                      /\ n < pk.contents => cut.error = "BinReader: Unexpected EOF"
                      /\ cut.touched <= n
                      /\ cut.m_pos <= n

\* An ACK in a reliable header was parsed: fourteen header bytes, each of
\* which can be the place the datagram is cut.
C24_Witness ==
    /\ pk.parsed
    /\ pk.error = "none"
    /\ pk.is_reliable
    /\ pk.type = "RPT_ACK"
    /\ pk.ack_seqnum = 257
    /\ pk.contents = 14
    /\ pk.contents_size = 0

----------------------------------------------------------------------------
(* The pending queue of the reorder buffer *)

\* The queued packets of full_seqnum f.
QueuedOf(f) == {p \in m_queue : p.full_seqnum = f}

\* The events of kind op logged for packets of full_seqnum f.
EventsOfFull(op, f) == {i \in LogIdx : rel_log[i].op = op /\ rel_log[i].full = f}

\* C25: the number of packets in the pending queue never exceeds MAX_WINDOW,
\* after any sequence of insert() calls including repeated arrivals of the
\* same not yet deliverable seqnum.  What keeps the queue within the window
\* is that such a repeated arrival does not add to it: an insert() of a
\* seqnum that is already queued leaves the queue no longer than it was.
C25_Step ==
    rel_n' = rel_n + 1 =>
        LET a == rel_arrivals'[rel_n']
            full == compute_full_seqnum(a.next, a.seqnum)
        IN  QueuedOf(full) # {} =>
                Cardinality(m_queue') <= Cardinality(m_queue)

C25_RepeatedArrivalNotQueued == [][C25_Step]_vars

\* C25, as far as it holds: every insert() of a seqnum ahead of
\* next_incoming_seqnum adds one packet to the queue, whether or not that
\* seqnum is queued already, so that the arrivals of one seqnum, and with
\* them the queue, are not bounded by the window.
C25_AheadStep ==
    rel_n' = rel_n + 1 =>
        LET a == rel_arrivals'[rel_n']
            full == compute_full_seqnum(a.next, a.seqnum)
        IN  full > next_incoming_seqnum =>
                /\ Cardinality(m_queue') = Cardinality(m_queue) + 1
                /\ Cardinality({p \in m_queue' : p.full_seqnum = full}) =
                      Cardinality(QueuedOf(full)) + 1

C25_EveryAheadArrivalQueued == [][C25_AheadStep]_vars

\* Three arrivals of one seqnum are queued, and so is the packet MAX_WINDOW
\* ahead.
C25_Witness ==
    /\ \E f \in {p.full_seqnum : p \in m_queue} : Cardinality(QueuedOf(f)) = 3
    /\ \E p \in m_queue :
          p.full_seqnum = next_incoming_seqnum + MAX_RELIABLE_WINDOW_SIZE

\* C26: in every state between insert() calls, including after an invocation
\* in which processPacket returned stop, every packet resident in the pending
\* queue has full_seqnum >= next_incoming_seqnum.
C26_ResidentNotBelowNext ==
    \A p \in m_queue : p.full_seqnum >= next_incoming_seqnum

\* C26, amended: a resident packet lies below next_incoming_seqnum only after
\* processPacket has returned stop, and only if it duplicates a packet that
\* was processed; as long as processPacket never returned stop every
\* resident packet has full_seqnum >= next_incoming_seqnum.
C26_BelowNextOnlyAfterStop ==
    \A p \in m_queue :
        p.full_seqnum < next_incoming_seqnum =>
            /\ EverStopped
            /\ EventsOfFull("process", p.full_seqnum) # {}

\* A duplicate of a processed packet stayed queued below next when the drain
\* loop was stopped, and is still there after a later insert().
C26_Witness ==
    /\ \E p \in m_queue : p.full_seqnum < next_incoming_seqnum
    /\ \E i \in ProcessIdx : ~rel_log[i].ret /\ rel_log[i].call < rel_n

\* C27: in every state between insert() calls, the pending queue holds at
\* most one packet per full_seqnum.
C27_OnePerFullSeqnum ==
    \A p, q \in m_queue : p.full_seqnum = q.full_seqnum => p = q

\* C27, as the code has it: the queue holds one packet per arrival that was pushed and
\* not yet popped by flush() or deleted by the destructor, several of one
\* full_seqnum if that seqnum arrived several times; of the packets of one
\* full_seqnum at most one is processed, every other one that flush() pops is
\* discarded.
C27_DuplicatesDroppedOnExtraction ==
    \A f \in {rel_log[i].full : i \in LogIdx} :
        /\ Cardinality(QueuedOf(f)) =
              Cardinality(EventsOfFull("push", f)) - Cardinality(EventsOfFull("pop", f))
                - Cardinality(EventsOfFull("delete", f))
        /\ Cardinality(EventsOfFull("process", f)) <= 1
        /\ \A i \in EventsOfFull("pop", f) :
              /\ rel_log[i + 1].id = rel_log[i].id
              /\ rel_log[i + 1].op \in {"process", "discard"}
        /\ \A i \in EventsOfFull("discard", f) :
              \E j \in EventsOfFull("process", f) : j < i

\* Two seqnums are queued twice each.
C27_Witness ==
    \E f, g \in {p.full_seqnum : p \in m_queue} :
        /\ f # g
        /\ Cardinality(QueuedOf(f)) = 2
        /\ Cardinality(QueuedOf(g)) = 2

\* C30: for every packet passed to processPacket, sendAck was invoked for
\* that same arrival strictly before the processPacket call: on the immediate
\* path within the same insert(), and for a packet that waited in the queue
\* in the insert() that enqueued it.
C30_AckBeforeProcess ==
    \A i \in ProcessIdx :
        \E j \in LogIdx :
            /\ j < i
            /\ rel_log[j].op = "ack"
            /\ rel_log[j].id = rel_log[i].id
            /\ rel_log[j].call = rel_log[i].id
            /\ rel_log[i].call # rel_log[i].id =>
                  /\ rel_log[j].call < rel_log[i].call
                  /\ rel_log[j + 1].op = "push"
                  /\ rel_log[j + 1].id = rel_log[i].id

\* The three arrivals of the stream out of order: the second one delivers
\* itself and the one that waited.
C30_Witness ==
    /\ \E i, j \in ProcessIdx :
          /\ j = i + 2
          /\ rel_log[i].call = rel_log[i].id
          /\ rel_log[j].call = rel_log[i].call
          /\ rel_log[j].id < rel_log[j].call
          /\ rel_log[j].full = rel_log[i].full + 1
    /\ m_queue # {}

----------------------------------------------------------------------------
(* The groups of the split buffer and their timeouts *)

\* The groups created so far.
CreatedIds == 0..(sp_next_id - 1)

\* C28: between calls to IncomingSplitBuffer::insert() and processTimeouts(),
\* a split group is resident in the buffer if and only if it holds fewer
\* chunks than its chunk_count: every resident group holds at least one
\* chunk and fewer than chunk_count, each under a chunk_num < chunk_count,
\* and a group left the buffer holding all its chunks unless its timeout
\* destroyed it.
C28_ResidentIffIncomplete ==
    /\ \A k \in DOMAIN m_buf :
          LET sp == m_buf[k]
          IN  /\ sp.m_seqnum = k
              /\ Cardinality(DOMAIN sp.m_chunks) >= 1
              /\ Cardinality(DOMAIN sp.m_chunks) < sp.m_chunk_count
              /\ DOMAIN sp.m_chunks \subseteq 0..(sp.m_chunk_count - 1)
              /\ Len(sp.accepted) = Cardinality(DOMAIN sp.m_chunks)
    /\ \A x \in 1..Len(sp_received) :
          /\ Len(sp_received[x].accepted) = sp_received[x].chunk_count
          /\ {sp_received[x].accepted[y].chunk_num :
                 y \in 1..Len(sp_received[x].accepted)} =
                0..(sp_received[x].chunk_count - 1)
    /\ CreatedIds = ResidentIds(m_buf) \cup DeliveredIds \cup EvictedIds
    /\ ResidentIds(m_buf) \cap DeliveredIds = {}
    /\ ResidentIds(m_buf) \cap EvictedIds = {}
    /\ Cardinality(ResidentIds(m_buf)) = Cardinality(DOMAIN m_buf)

\* Group 8 left the buffer with its two chunks while group 7 is resident with
\* one of three.
C28_Witness ==
    /\ Len(sp_received) = 1
    /\ sp_received[1].seqnum = 8
    /\ 7 \in DOMAIN m_buf
    /\ m_buf[7].m_chunk_count = 3
    /\ Cardinality(DOMAIN m_buf[7].m_chunks) = 1

\* The timeouts armed for the resident groups.
TimeoutsOfGroups ==
    /\ \A k \in DOMAIN m_buf :
          LET sp == m_buf[k]
          IN  IF sp.m_reliable
              THEN ~isActive(m_heap, sp.id)
              ELSE Cardinality({r \in m_heap : r.owner = sp.id}) = 1
    /\ \A r \in m_heap : r.owner \in ResidentIds(m_buf)
    /\ \A r \in m_heap : r.owner \notin DeliveredIds \cup EvictedIds

\* A reliable group leaves the buffer only in an insert() that completes it.
ReliableLeavesByCompletion ==
    \A k \in DOMAIN m_buf :
        (/\ m_buf[k].m_reliable
         /\ m_buf[k].id \notin ResidentIds(m_buf')) =>
            /\ Len(sp_received') = Len(sp_received) + 1
            /\ sp_received'[Len(sp_received')].id = m_buf[k].id
            /\ sp_evicted' = sp_evicted

\* C29: the armed split timeouts correspond one to one with the resident
\* unreliable groups: a resident group created from an unreliable packet has
\* exactly one active timeout, a group created from a reliable packet never
\* has one and leaves the buffer only by completion, and no timeout stays
\* armed for a completed or evicted group.
C29_TimeoutsMatchUnreliableGroups ==
    [][TimeoutsOfGroups' /\ ReliableLeavesByCompletion]_vars

\* Past the deadline of both, processTimeouts() evicted the unreliable group
\* while the reliable one stays, with no timeout armed.
C29_Witness ==
    /\ sp_evicted # <<>>
    /\ \E k \in DOMAIN m_buf :
          /\ m_buf[k].m_reliable
          /\ ~isActive(m_heap, m_buf[k].id)
    /\ m_heap = {}
    /\ now > SPLIT_TIMEOUT_MS

----------------------------------------------------------------------------
(* The delivery position of the reorder buffer *)

\* The deliveries of the run continue the stream at rel_start without a gap,
\* and next_incoming_seqnum counts them.
GapFree ==
    /\ \A k \in 1..Len(Deliveries) : Deliveries[k] = rel_start + (k - 1)
    /\ next_incoming_seqnum = rel_start + Len(Deliveries)
    /\ Len(Deliveries) = Cardinality(ProcessIdx)

\* C31: deliveries are gap-free: the k-th packet delivered since the buffer
\* stood at rel_start has full_seqnum rel_start + k, next_incoming_seqnum
\* equals rel_start plus the number of processPacket calls made since, it
\* never decreases, and it keeps counting across the wrap of the wire seqnum
\* from 65535 to 0.
C31_GapFreeDeliveries ==
    [][GapFree' /\ next_incoming_seqnum' >= next_incoming_seqnum]_vars

\* From 65534 the wire seqnums 65534, 65535 and 0 arrived in order and were
\* delivered as 65534, 65535, 65536.
C31_Witness ==
    /\ rel_start = SEQNUM_MAX - 1
    /\ Deliveries = <<SEQNUM_MAX - 1, SEQNUM_MAX, SEQNUM_MAX + 1>>
    /\ next_incoming_seqnum = SEQNUM_MAX + 2
    /\ \E i \in ProcessIdx :
          /\ rel_arrivals[rel_log[i].id].seqnum = 0
          /\ rel_log[i].full = U16
    /\ \A i \in LogIdx : rel_log[i].op # "pop"

\* C32: when an insert() invocation has ended and processPacket has never
\* returned stop, every packet left in the pending queue has full_seqnum
\* strictly greater than next_incoming_seqnum: no packet that is deliverable
\* or already superseded stays queued.
C32_QueuedStrictlyAhead ==
    ~EverStopped => \A p \in m_queue : p.full_seqnum > next_incoming_seqnum

\* flush() delivered a queued packet and discarded its duplicate, and the
\* packet far ahead is still queued.
C32_Witness ==
    /\ ~EverStopped
    /\ \E i \in LogIdx : rel_log[i].op = "discard"
    /\ \E i \in ProcessIdx : rel_log[i].id # rel_log[i].call
    /\ m_queue # {}

----------------------------------------------------------------------------
(* Duplicate chunks and completion in the split buffer *)

\* The packets whose chunk_num is stored in the resident group of their
\* split seqnum.
StoredAgain ==
    {rpkt \in SplitPackets :
        /\ rpkt.seqnum \in DOMAIN m_buf
        /\ rpkt.chunk_num \in DOMAIN m_buf[rpkt.seqnum].m_chunks}

\* C33: inserting a SPLIT packet whose chunk_num is already stored in its
\* group changes nothing: an insert() of such a packet made now leaves the
\* stored chunk, the chunk set, the residency of the group and the expiration
\* of its timeout as they are.
C33_DuplicateChunkIgnored ==
    \A rpkt \in StoredAgain :
        IncomingSplitBuffer_insert(SplitState, rpkt, now) = SplitState

\* Chunk 0 of the unreliable group 7 is stored, the clock has advanced since,
\* and chunk 0 can arrive again with other contents.
C33_Witness ==
    /\ ~sp_aborted
    /\ 7 \in DOMAIN m_buf
    /\ ~m_buf[7].m_reliable
    /\ \E rpkt \in StoredAgain :
          /\ rpkt.seqnum = 7
          /\ rpkt.chunk_count = m_buf[7].m_chunk_count
          /\ rpkt.contents # m_buf[7].m_chunks[rpkt.chunk_num]
    /\ \E r \in m_heap :
          r.owner = m_buf[7].id /\ r.expiration < now + SPLIT_TIMEOUT_MS

\* The group delivered first in this step, if one was.
Completed == sp_received'[Len(sp_received) + 1]

\* C34: on completion of a split group, the group is removed from the buffer
\* and its timeout is cancelled before the data-received callback is
\* invoked: after a step that delivered a group, the group is not resident
\* and has no timeout, and a group resident under its split seqnum is a
\* fresh one, created by the callback from a single packet; and a packet
\* inserted later under the split seqnum of a delivered group starts a fresh
\* group as well.
C34_Step ==
    /\ Len(sp_received') > Len(sp_received) =>
          /\ Completed.id \notin ResidentIds(m_buf')
          /\ ~isActive(m_heap', Completed.id)
          /\ Completed.seqnum \in DOMAIN m_buf' =>
                /\ sp_n' = sp_n + 2
                /\ m_buf'[Completed.seqnum].id = sp_next_id' - 1
                /\ m_buf'[Completed.seqnum].id > Completed.id
                /\ Len(m_buf'[Completed.seqnum].accepted) = 1
    /\ \A x \in 1..Len(sp_received), rpkt \in SplitPackets :
          (rpkt.seqnum = sp_received[x].seqnum /\ rpkt.seqnum \notin DOMAIN m_buf) =>
              LET out == IncomingSplitBuffer_insert(SplitState, rpkt, now)
              IN  /\ out.next_id = sp_next_id + 1
                  /\ rpkt.seqnum \in DOMAIN out.buf =>
                        /\ out.buf[rpkt.seqnum].id = sp_next_id
                        /\ out.buf[rpkt.seqnum].accepted = <<rpkt>>

C34_RemovedBeforeCallback == [][C34_Step]_vars

\* After two packets were inserted, group 8 was completed and its callback
\* inserted chunk 0 of a new group 8, which is resident as a fresh group.
C34_Witness ==
    /\ sp_n = MaxSplitInserts + 1
    /\ Len(sp_received) = 1
    /\ sp_received[1].seqnum = 8
    /\ 8 \in DOMAIN m_buf
    /\ m_buf[8].id > sp_received[1].id
    /\ DOMAIN m_buf[8].m_chunks = {0}
    /\ 7 \in DOMAIN m_buf

----------------------------------------------------------------------------
(* nextTimeoutMs() against processTimeouts() *)

\* The expiration of the record on top of the queue's heap.
TopExpiration == tq_heap.node[top(tq_heap)].value.expiration

\* A processTimeouts() call made now fires at least one callback.
FiresNow == TimeoutQueue_processTimeouts(tq_heap, now).invoked # <<>>

\* C37: nextTimeoutMs() and processTimeouts() agree on what is expired: for
\* a non-empty queue, nextTimeoutMs() returns 0 at clock value t if and only
\* if a processTimeouts() call made at the same clock value fires at least
\* one callback; otherwise it returns top.expiration - t.
C37_AgreeOnExpired ==
    (~tq_heap.failed /\ ~empty(tq_heap)) =>
        /\ (TimeoutQueue_nextTimeoutMs(tq_heap, now) = 0) <=> FiresNow
        /\ ~FiresNow => TimeoutQueue_nextTimeoutMs(tq_heap, now) = TopExpiration - now

\* C37, as the code has it: nextTimeoutMs() returns max(0, top.expiration -
\* t), 0 from the expiration on, while processTimeouts() fires only past the
\* expiration; at t = top.expiration nextTimeoutMs() returns 0 and a
\* processTimeouts() call fires nothing.
C37_AgreeExceptAtExpiration ==
    (~tq_heap.failed /\ ~empty(tq_heap)) =>
        /\ TimeoutQueue_nextTimeoutMs(tq_heap, now) =
              (IF U64Less(now, TopExpiration) THEN TopExpiration - now ELSE 0)
        /\ FiresNow <=> U64Less(TopExpiration, now)
        /\ TopExpiration # now =>
              ((TimeoutQueue_nextTimeoutMs(tq_heap, now) = 0) <=> FiresNow)
        /\ TopExpiration = now =>
              (TimeoutQueue_nextTimeoutMs(tq_heap, now) = 0 /\ ~FiresNow)

\* Two timeouts wait and the clock stands at the expiration of the earlier
\* one, which was armed before.
C37_Witness ==
    /\ ~tq_heap.failed
    /\ size(tq_heap) = 2
    /\ TopExpiration = now
    /\ now > 0
    /\ \E n \in Handles : inHeap(tq_heap, n) /\ U64Less(now, tq_heap.node[n].value.expiration)

----------------------------------------------------------------------------
(* Callbacks that act on the queue during processTimeouts() *)

\* The callbacks armed by a callback.
ArmedInPass == {i \in 1..Len(tq_cbs) : "pass" \in DOMAIN tq_cbs[i]}

\* C35: when processTimeouts() invokes a callback, its record has already
\* been removed from the heap and its handle reports isActive() false; the
\* callback may call setTimeout or clearTimeout on its own handle or destroy
\* it, and afterwards the heap is valid, and a timeout armed inside a
\* callback and neither cancelled nor fired since is scheduled with its new
\* expiration.
C35_CallbackMayRearm ==
    /\ ~tq_heap.failed
    /\ BinHeap_validate(tq_heap)
    /\ Waiting \subseteq tq_alive
    /\ \A j \in 1..Len(tq_fired) : ~tq_fired[j].active
    /\ \A i \in ArmedInPass :
          (tq_cbs[i].status = "armed" /\ TimesFired(i) = 0) =>
              /\ tq_cbs[i].handle \in Waiting
              /\ CallbackOf(tq_cbs[i].handle) = i
              /\ tq_heap.node[tq_cbs[i].handle].value.expiration = ExpiryOf(i)

\* A callback re-armed its own handle, which waits with the new expiration
\* while the callback of the other handle destroyed that handle.
C35_Witness ==
    /\ \E i \in ArmedInPass, j \in 1..Len(tq_fired) :
          /\ tq_cbs[i].by = tq_fired[j].callback
          /\ tq_cbs[i].handle = tq_fired[j].handle
          /\ tq_cbs[i].handle \in Waiting
          /\ U64Less(tq_fired[j].expiration, tq_heap.node[tq_cbs[i].handle].value.expiration)
    /\ \E j \in 1..Len(tq_fired) : tq_fired[j].handle \notin tq_alive

\* The invocations of callbacks that were armed during the pass that invoked
\* them.
FiredInOwnPass ==
    {j \in 1..Len(tq_fired) :
        /\ tq_fired[j].callback \in ArmedInPass
        /\ tq_cbs[tq_fired[j].callback].pass = tq_fired[j].pass}

\* C36: processTimeouts() terminates even when callbacks re-arm their own or
\* other handles with any delay >= 0: a timeout armed during a pass is never
\* fired in that same pass.
C36_ArmedInPassNotFiredInPass == FiredInOwnPass = {}

\* C36, as far as it holds: a timeout armed during a pass is fired in that
\* same pass only if the sum of the clock and its delay exceeded the u64
\* range, and a pass invokes no callback twice; with every expiration
\* within the range a pass invokes only callbacks armed before it.
C36_FiredInPassOnlyOnOverflow ==
    /\ \A j \in FiredInOwnPass :
          /\ tq_cbs[tq_fired[j].callback].delayMs = U64_MAX
          /\ tq_fired[j].expiration = tq_cbs[tq_fired[j].callback].at - 1
          /\ U64Less(tq_fired[j].expiration, tq_fired[j].at)
    /\ \A j, k \in 1..Len(tq_fired) :
          tq_fired[j].callback = tq_fired[k].callback => j = k
    /\ \A j \in 1..Len(tq_fired) :
          tq_fired[j].callback \in ArmedInPass =>
              tq_cbs[tq_fired[j].callback].pass <= tq_fired[j].pass

\* A callback re-armed its handle with delay 0 without the clock moving,
\* the pass ended with that timeout waiting, and a later pass fired it.
C36_Witness ==
    \E i \in ArmedInPass, j \in 1..Len(tq_fired) :
        /\ tq_cbs[i].delayMs = 0
        /\ tq_cbs[i].at = tq_fired[tq_cbs[i].pass].at
        /\ tq_fired[j].callback = i
        /\ tq_fired[j].pass > tq_cbs[i].pass

----------------------------------------------------------------------------
(* insert() after clear() *)

\* clear() has just been called.
JustCleared == bh_last.op = "clear" /\ ~real.failed

\* C38: clear() leaves the heap in the state of a fresh empty heap: every
\* node reports inHeap() false, size() is 0, and a following insert() of any
\* out-of-heap node succeeds without an assertion failure and makes that
\* node the top.
C38_ClearedLikeFresh ==
    JustCleared =>
        /\ Resident(real) = {}
        /\ size(real) = 0
        /\ \A node \in HeapNodes :
              /\ ~BinHeap_insert(real, node).failed
              /\ top(BinHeap_insert(real, node)) = node

\* C38, as the code has it: after clear() every node reports inHeap() false
\* and size() is 0, but m_root still points at the former root: a following
\* insert() succeeds, making its node the top of a heap of size 1, only if
\* the heap was empty when it was cleared, and fails the assertion at
\* binheap.h:138 otherwise.
C38_InsertAfterClearAsserts ==
    JustCleared =>
        /\ Resident(real) = {}
        /\ size(real) = 0
        /\ real.m_root = NULL <=> bh_last.size = 0
        /\ \A node \in HeapNodes :
              IF bh_last.size = 0
              THEN /\ ~BinHeap_insert(real, node).failed
                   /\ top(BinHeap_insert(real, node)) = node
                   /\ size(BinHeap_insert(real, node)) = 1
                   /\ Resident(BinHeap_insert(real, node)) = {node}
              ELSE BinHeap_insert(real, node).failed

\* clear() was called on a heap of two nodes; the former root is out of the
\* heap and still the root, and an insert() of it fails.
C38_Witness ==
    /\ JustCleared
    /\ bh_last.size = 2
    /\ real.m_root # NULL
    /\ ~inHeap(real, real.m_root)
    /\ BinHeap_insert(real, real.m_root).failed

(***************************************************************************)
(* AsyncLoop, src/network/split.cpp:401-455.  Callbacks are numbered in    *)
(* the order they are given to add_callback or atexit; what a callback     *)
(* does when it is invoked is chosen at the invocation.                    *)
(***************************************************************************)

\* add_callback(callback), split.cpp:405-411.
AsyncLoop_add_callback(a, callback) ==
    [a EXCEPT !.m_pending = Append(@, callback)]

\* atexit(callback), split.cpp:413-419.
AsyncLoop_atexit(a, callback) ==
    [a EXCEPT !.m_atexits = Append(@, callback)]

\* exit(status), split.cpp:422-425.
AsyncLoop_exit(a, status) ==
    [a EXCEPT !.m_running = FALSE, !.exit_status = status]

\* What a callback, or the code that calls loop(), may do with the AsyncLoop
\* while it runs: up to MaxActs calls of add_callback, atexit and exit in any
\* order; new callbacks are given only while MaxCallbacks are not exceeded.
LoopChoices ==
    {acts \in UNION {[1..n -> {"add_callback", "atexit", "exit"}] : n \in 0..MaxActs} :
        Len(al_cbs) + Cardinality({k \in DOMAIN acts : acts[k] # "exit"}) <= MaxCallbacks}

\* The AsyncLoop after the calls acts, made in order; callback is the number
\* the next new callback gets.
RECURSIVE Acted(_, _, _)
Acted(a, acts, callback) ==
    IF acts = <<>> THEN a
    ELSE CASE Head(acts) = "add_callback" ->
                Acted(AsyncLoop_add_callback(a, callback), Tail(acts), callback + 1)
           [] Head(acts) = "atexit" ->
                Acted(AsyncLoop_atexit(a, callback), Tail(acts), callback + 1)
           [] Head(acts) = "exit" ->
                Acted(AsyncLoop_exit(a, 1), Tail(acts), callback)

\* The callbacks given so far after the calls acts of `by` (0: the code that
\* calls loop()), with where loop() stood.
RECURSIVE Given(_, _, _, _)
Given(cbs, a, acts, by) ==
    IF acts = <<>> THEN cbs
    ELSE IF Head(acts) = "exit" THEN Given(cbs, a, Tail(acts), by)
    ELSE Given(Append(cbs, [kind |-> Head(acts), pc |-> a.pc, batch |-> a.batch, by |-> by]),
               a, Tail(acts), by)

\* A mutated clean_exit() that takes the oldest atexit callback first.
NextAtExit_Front(a) ==
    [cb |-> Head(a.m_atexits), rest |-> Tail(a.m_atexits)]

\* m_atexits.back() and pop_back(), split.cpp:444-445.
NextAtExit(a) ==
    [cb |-> a.m_atexits[Len(a.m_atexits)],
     rest |-> SubSeq(a.m_atexits, 1, Len(a.m_atexits) - 1)]

\* The code that owns the AsyncLoop registers callbacks before it calls loop().
MainActs ==
    /\ al.pc = "main"
    /\ \E acts \in LoopChoices :
        /\ al' = Acted(al, acts, Len(al_cbs) + 1)
        /\ al_cbs' = Given(al_cbs, al, acts, 0)
    /\ UNCHANGED <<al_ran, fnVars, relVars, splitVars, heapVars, tqVars, pkVars>>

\* while (m_running) and the swap, split.cpp:428-429, when loop() is called
\* and after each batch; clean_exit() is entered when the loop ends,
\* split.cpp:438.
LoopWhile ==
    /\ al.pc \in {"main", "while"}
    /\ al' = IF al.m_running
             THEN [al EXCEPT !.m_pending = al.m_active, !.m_active = al.m_pending,
                             !.batch = @ + 1, !.pc = "active"]
             ELSE [al EXCEPT !.pc = "clean_exit"]
    /\ UNCHANGED <<al_cbs, al_ran, fnVars, relVars, splitVars, heapVars, tqVars, pkVars>>

\* One turn of the inner loop, split.cpp:430-434: the front callback is taken
\* off m_active and then invoked.
LoopRuns ==
    /\ al.pc = "active"
    /\ al.m_active # <<>>
    /\ LET cb == Head(al.m_active)
           popped == [al EXCEPT !.m_active = Tail(@)]
       IN \E acts \in LoopChoices :
            /\ al' = Acted(popped, acts, Len(al_cbs) + 1)
            /\ al_cbs' = Given(al_cbs, al, acts, cb)
            /\ al_ran' = Append(al_ran, [cb |-> cb, pc |-> al.pc, batch |-> al.batch,
                                          running |-> al.m_running, acts |-> acts])
    /\ UNCHANGED <<fnVars, relVars, splitVars, heapVars, tqVars, pkVars>>

\* The inner loop has ended, split.cpp:435-436: break when nothing is pending.
LoopBatchEnds ==
    /\ al.pc = "active"
    /\ al.m_active = <<>>
    /\ al' = [al EXCEPT !.pc = IF al.m_pending = <<>> THEN "clean_exit" ELSE "while"]
    /\ UNCHANGED <<al_cbs, al_ran, fnVars, relVars, splitVars, heapVars, tqVars, pkVars>>

\* One turn of clean_exit(), split.cpp:443-447.
CleanExitRuns ==
    /\ al.pc = "clean_exit"
    /\ al.m_atexits # <<>>
    /\ LET nxt == NextAtExit(al)
           popped == [al EXCEPT !.m_atexits = nxt.rest]
       IN \E acts \in LoopChoices :
            /\ al' = Acted(popped, acts, Len(al_cbs) + 1)
            /\ al_cbs' = Given(al_cbs, al, acts, nxt.cb)
            /\ al_ran' = Append(al_ran, [cb |-> nxt.cb, pc |-> al.pc, batch |-> al.batch,
                                          running |-> al.m_running, acts |-> acts])
    /\ UNCHANGED <<fnVars, relVars, splitVars, heapVars, tqVars, pkVars>>

\* std::exit(exit_status), split.cpp:448.
StdExit ==
    /\ al.pc = "clean_exit"
    /\ al.m_atexits = <<>>
    /\ al' = [al EXCEPT !.pc = "exited"]
    /\ UNCHANGED <<al_cbs, al_ran, fnVars, relVars, splitVars, heapVars, tqVars, pkVars>>

InitLoop ==
    /\ AlIdle
    /\ FnIdle
    /\ RelIdle
    /\ SplitIdle
    /\ HeapIdle
    /\ TqIdle
    /\ PkIdle

NextLoop ==
    \/ MainActs
    \/ LoopWhile
    \/ LoopRuns
    \/ LoopBatchEnds
    \/ CleanExitRuns
    \/ StdExit

SpecLoop == InitLoop /\ [][NextLoop]_vars

\* The invocations made by the inner loop and by clean_exit().
LoopIdx == {i \in 1..Len(al_ran) : al_ran[i].pc = "active"}
ExitIdx == {i \in 1..Len(al_ran) : al_ran[i].pc = "clean_exit"}

\* The callbacks given to add_callback before clean_exit() began, those given
\* to atexit, and the batch a callback given to add_callback belongs to: the
\* one after the swap that follows the call.
Added == {c \in 1..Len(al_cbs) : al_cbs[c].kind = "add_callback" /\ al_cbs[c].pc # "clean_exit"}
AtExits == {c \in 1..Len(al_cbs) : al_cbs[c].kind = "atexit"}
BatchOf(c) == al_cbs[c].batch + 1

\* Invocation i called exit().
CalledExit(i) == \E k \in DOMAIN al_ran[i].acts : al_ran[i].acts[k] = "exit"

\* loop() invokes callbacks in the order add_callback was called.
FirstInFirstOut ==
    \A i, j \in LoopIdx : i < j => al_ran[i].cb < al_ran[j].cb

\* A callback runs in its own batch, after every callback of the batches
\* before: one added while a batch runs waits for the rest of that batch.
InBatches ==
    \A i \in LoopIdx :
        /\ al_ran[i].cb \in Added
        /\ al_ran[i].batch = BatchOf(al_ran[i].cb)
        /\ \A c \in Added : BatchOf(c) < al_ran[i].batch =>
                \E j \in LoopIdx : j < i /\ al_ran[j].cb = c

\* Once loop() has left its while loop every callback of the batches begun
\* has run exactly once, also those behind a callback that called exit(), and
\* no batch was begun after the one exit() was called in.
ExitEndsAfterBatch ==
    /\ al.pc \in {"clean_exit", "exited"} =>
            \A c \in Added : BatchOf(c) <= al.batch =>
                Cardinality({i \in LoopIdx : al_ran[i].cb = c}) = 1
    /\ \A i, j \in LoopIdx : CalledExit(i) => al_ran[j].batch <= al_ran[i].batch

\* clean_exit() has invoked every atexit callback exactly once, and nothing else.
AtExitsOnce ==
    /\ \A i \in ExitIdx : al_ran[i].cb \in AtExits
    /\ \A c \in AtExits : Cardinality({i \in ExitIdx : al_ran[i].cb = c}) = 1

\* The atexit callbacks ran in the reverse of the order they were given in.
ReverseOfRegistration ==
    \A i, j \in ExitIdx : i < j => al_ran[i].cb > al_ran[j].cb

\* The atexit callbacks registered before the j-th invocation began: those
\* given before clean_exit() and those given by an atexit callback that ran
\* earlier.
RegisteredBefore(j) ==
    {c \in AtExits :
        \/ al_cbs[c].pc # "clean_exit"
        \/ \E i \in ExitIdx : i < j /\ al_ran[i].cb = al_cbs[c].by}

\* Every turn of clean_exit() runs the atexit callback registered last among
\* those registered by then that have not run yet.
LastInFirstOut ==
    \A j \in ExitIdx :
        LET waiting == RegisteredBefore(j) \ {al_ran[i].cb : i \in {e \in ExitIdx : e < j}}
        IN  /\ waiting # {}
            /\ al_ran[j].cb = Greatest(waiting)

\* The atexit callbacks registered before clean_exit() began run in reverse
\* order of registration.
ReverseAmongEarlier ==
    \A i, j \in ExitIdx :
        (i < j /\ al_cbs[al_ran[i].cb].pc # "clean_exit" /\ al_cbs[al_ran[j].cb].pc # "clean_exit")
            => al_ran[i].cb > al_ran[j].cb

\* C39 as stated: loop() runs callbacks first in, first out and in batches;
\* after exit() the rest of the batch runs and no later batch does; the atexit
\* callbacks then run exactly once each in reverse order of registration.
C39_AtExitReverseOfRegistration ==
    /\ FirstInFirstOut
    /\ InBatches
    /\ ExitEndsAfterBatch
    /\ al.pc = "exited" => (AtExitsOnce /\ ReverseOfRegistration)

\* C39 amended: as above, but the atexit callbacks run last in, first out:
\* every turn of clean_exit() runs the atexit callback registered last among
\* those not yet run, so the callbacks registered before clean_exit() began
\* run in reverse order of registration, and callbacks registered by an atexit
\* callback run before every earlier callback still waiting, the last
\* registered first.
C39_AtExitLastInFirstOut ==
    /\ FirstInFirstOut
    /\ InBatches
    /\ ExitEndsAfterBatch
    /\ LastInFirstOut
    /\ al.pc = "exited" => (AtExitsOnce /\ ReverseAmongEarlier)

\* loop() has ended after exit() was called by the first callback of a batch
\* of two: the second still ran and added a callback that never ran; an
\* atexit callback registered two more, which ran after it, the second
\* registered first.
C39_Witness ==
    /\ al.pc = "exited"
    /\ \E i, j \in LoopIdx :
        /\ i < j
        /\ CalledExit(i)
        /\ al_ran[j].batch = al_ran[i].batch
        /\ ~al_ran[j].running
        /\ al_ran[j].acts = <<"add_callback">>
    /\ \E c \in Added : \A i \in LoopIdx : al_ran[i].cb # c
    /\ \E j \in ExitIdx :
        /\ {j + 1, j + 2} \subseteq ExitIdx
        /\ al_ran[j].acts = <<"atexit", "atexit">>
        /\ al_cbs[al_ran[j + 1].cb].by = al_ran[j].cb
        /\ al_cbs[al_ran[j + 2].cb].by = al_ran[j].cb
        /\ al_ran[j + 1].cb > al_ran[j + 2].cb

====
